---- MODULE Spec2Model ----
(***************************************************************************)
(* Model of the lgrep multi-project server kernel (src/lgrep/server.py)    *)
(* and of the indexing pipeline that feeds a project's chunk store         *)
(* (src/lgrep/indexing.py, src/lgrep/storage.py).                          *)
(*                                                                         *)
(* Scheduling.  Tool handlers are coroutines on one asyncio event loop:    *)
(* the code between two suspension points runs atomically.  The only       *)
(* suspension points of the kernel are asyncio.to_thread (index_all, the   *)
(* search query), asyncio.sleep (retry delay) and Event.wait (follower).   *)
(* `async with app_ctx._lock` never suspends, because no holder of the     *)
(* lock awaits inside its critical section, so the lock is always free     *)
(* when a coroutine reaches it.  Each action below is one such atomic      *)
(* segment.  index_all and index_file run on worker threads and interleave *)
(* freely with the loop and with each other.                               *)
(***************************************************************************)
EXTENDS Integers, FiniteSets, Sequences, TLC

\* ---------------------------------------------------------------- constants
MAX_PROJECTS == 20
AUTO_INDEX_MAX_ATTEMPTS == 2
\* AUTO_INDEX_RETRY_BASE_DELAY_S = 0.1, in milliseconds
AUTO_INDEX_RETRY_BASE_DELAY_MS == 100
\* embeddings.py: MAX_RETRIES = 5; BASE_DELAY = 1.0 second, here in milliseconds
MAX_RETRIES == 5
BASE_DELAY_MS == 1000
\* storage.py, search_hybrid: `if row_count > 1000`
VECTOR_INDEX_MIN_ROWS == 1000
debounce_ms == 500

\* ------------------------------------------------------------------- bounds
NumTasks == 2
NumHot == 1
NumWorkers == 2
NumFiles == 1
NumTreeFiles == 2
MaxPathLen == 6
MaxContent == 2
MaxEvents == 2
MaxTime == 4
MaxJunk == 2
\* calls made on one ChunkStore
MaxSearches == 3
\* the token counts one embedding call may report
MaxTokens == 2
\* calls each worker thread makes on the shared embedder
MaxEmbedCalls == 2
\* texts in the batch handed to _embed_batch_with_retry
MaxBatch == 3

Tasks == 1..NumTasks
\* a path that does not resolve to a directory
NoDir == 0
\* project directories named by tool calls; cold at start (no disk cache)
HotPaths == 1..NumHot
\* project directories that already have a disk cache (warm-up candidates)
CachedPaths == (NumHot + 1)..(NumHot + MAX_PROJECTS + 1)
Paths == {NoDir} \cup HotPaths \cup CachedPaths
\* lengths of the LGREP_WARM_PATHS lists tried
WarmSizes == {0, MAX_PROJECTS - 1, MAX_PROJECTS + 1}

NoState == 0
NoEvent == 0

\* ----------------------------------------------------------- watched paths
\* keys of LANGUAGE_MAP
SUPPORTED_EXTENSIONS ==
    {".py", ".pyi", ".js", ".jsx", ".ts", ".tsx", ".rs", ".go", ".rb", ".java", ".c",
     ".h", ".cpp", ".cc", ".cxx", ".hpp", ".cs", ".php", ".swift", ".kt", ".scala",
     ".lua", ".r", ".R", ".jl", ".ex", ".exs", ".erl", ".hrl", ".hs", ".ml", ".mli",
     ".sh", ".bash", ".zsh", ".yaml", ".yml", ".json", ".toml", ".md", ".sql"}
\* the directories the project's .gitignore / .lgrepignore rules match
IgnoreRules == {"build"}
\* the files the observer reports events on: directory part and suffix
WatchPaths ==
    {[dir |-> "src", suffix |-> ".py"], [dir |-> "src", suffix |-> ".PY"],
     [dir |-> "src", suffix |-> ".png"], [dir |-> "build", suffix |-> ".py"],
     [dir |-> ".git", suffix |-> ".py"]}
NoTimer == 0

\* error envelopes
ErrLimit == "Maximum project limit reached"
ErrKey == "VOYAGE_API_KEY not set"
ErrInit == "Failed to initialize project"
ErrAutoIndex == "Failed to auto-index project on first search"
ErrFollower == "Auto-indexing by a concurrent request failed"
ErrPath == "Path does not exist or is not a directory"
ErrSearch == "Search failed"
ErrIndexing == "Indexing failed"
ErrWatch == "Failed to start watcher"
Errors ==
    {ErrLimit, ErrKey, ErrInit, ErrAutoIndex, ErrFollower, ErrPath, ErrSearch, ErrIndexing,
     ErrWatch}

VARIABLES
    phase,            \* "warm" (lifespan start), "serving", "closed" (after _shutdown)
    warmList,         \* LGREP_WARM_PATHS, already split into entries
    voyage_api_key,   \* LgrepContext.voyage_api_key is set
    embedder,         \* LgrepContext.embedder is not None
    projects,         \* LgrepContext.projects: path -> ProjectState identity (NoState: absent)
    nextId,           \* identity of the next ProjectState object constructed
    indexing_events,  \* LgrepContext._indexing_events: path -> event (named by its leader)
    eventSet,         \* the asyncio.Event objects that have been set
    watching,         \* ProjectState objects with watching = True
    watcherOf,        \* ProjectState.watcher: state -> its FileWatcher (absent: None)
    observers,        \* the watchdog Observers constructed so far, in order
    diskCache,        \* has_disk_cache(path): the chunks table directory exists
    call,             \* per tool call: handler, argument, position and locals
    hist,             \* history: per path, what has happened to its registry entry
    fileContent,      \* one project's files on disk: file -> content
    store,            \* that project's ChunkStore: the rows of the chunks table
    wk,               \* per worker thread: its index_file call, position and locals
    present,          \* the files FileDiscovery.find_files yields (on disk, not ignored)
    ia,               \* the index_all run: position, snapshot and locals
    rows,             \* a chunks table seen through its file_path column (strings)
    lastDelete,       \* the last delete_by_file call on it: argument and outcome
    now,              \* loop.time(), in ticks
    ready,            \* the event loop's queue of callbacks ready to run
    todo,             \* callbacks left in the loop iteration under way
    timers,           \* the TimerHandles made by call_later, in order of creation
    pending_files,    \* IndexingHandler.pending_files: path -> TimerHandle
    wh,               \* history: per watched path, its events and index_file calls
    tool,             \* one MCP tool call: the handler, its position, its outcome
    probe,            \* one caller of the ChunkStore: its add/delete sequence
    stopped,          \* FileWatcher.stop(): whether it returned, and the calls by then
    cs,               \* one ChunkStore's search indexes: flag, row count, builds made
    ve,               \* the shared embedder: token counter and the calls on threads
    rt                \* one _embed_batch_with_retry call: batches left, attempt, result

wvars == <<watcherOf, observers>>

kvars == <<phase, warmList, voyage_api_key, embedder, projects, nextId,
           indexing_events, eventSet, watching, diskCache, call, hist, wvars>>

ivars == <<fileContent, store, wk>>

avars == <<present, ia>>

evars == <<rows, lastDelete>>

dvars == <<now, ready, todo, timers, pending_files, wh>>

xvars == <<tool, probe, stopped>>

yvars == <<cs, ve, rt>>

vars == <<kvars, ivars, avars, evars, dvars, xvars, yvars>>

\* what the handlers of the kernel, the index_file steps and the index_all
\* steps leave alone
notKernel == <<ivars, avars, evars, dvars, xvars, yvars>>

notIndexFile == <<kvars, avars, evars, dvars, xvars, yvars>>

notIndexer == <<kvars, evars, dvars, xvars, yvars>>

notStorage == <<kvars, ivars, avars, dvars, xvars, yvars>>

notHandler == <<kvars, ivars, avars, evars, xvars, yvars>>

IsDirAlways(p) == TRUE

\* project_path.exists() and project_path.is_dir()
IsDir(p) == p # NoDir

Loaded(projs) == {p \in Paths : projs[p] # NoState}

IdleCall ==
    [op |-> "none", path |-> NoDir, pc |-> "idle", attempt |-> 0, got |-> NoState,
     result |-> "none", event |-> NoEvent, role |-> "none", outcome |-> "none",
     evicted |-> FALSE, failpopped |-> FALSE, delays |-> <<>>]

\* ------------------------------------------------- _ensure_project_initialized
AtLimitOffByOne(count) == count > MAX_PROJECTS

AtLimit(count) == count >= MAX_PROJECTS

KeyMissingNever(key) == FALSE

\* `not app_ctx.voyage_api_key`
KeyMissing(key) == ~key

EnsureNeverHits(projs, p) == FALSE

\* `path_key in app_ctx.projects`, on the fast path and again under the lock
EnsureHit(projs, p) == projs[p] # NoState

\* The whole of _ensure_project_initialized: fast path, then the locked slow
\* path.  initFails: constructing the ChunkStore or Indexer raises.
EnsureProject(projs, nid, emb, p, initFails) ==
    IF EnsureHit(projs, p)
    THEN [projects |-> projs, nextId |-> nid, embedder |-> emb,
          ret |-> projs[p], err |-> "none", new |-> FALSE]
    ELSE LET count == Cardinality(Loaded(projs)) IN
         IF AtLimit(count)
         THEN [projects |-> projs, nextId |-> nid, embedder |-> emb,
               ret |-> NoState, err |-> ErrLimit, new |-> FALSE]
         ELSE IF KeyMissing(voyage_api_key)
         THEN [projects |-> projs, nextId |-> nid, embedder |-> emb,
               ret |-> NoState, err |-> ErrKey, new |-> FALSE]
         ELSE IF initFails
         THEN [projects |-> projs, nextId |-> nid, embedder |-> TRUE,
               ret |-> NoState, err |-> ErrInit, new |-> FALSE]
         ELSE [projects |-> [projs EXCEPT ![p] = nid], nextId |-> nid + 1,
               embedder |-> TRUE, ret |-> nid, err |-> "none", new |-> TRUE]

\* history: a ProjectState was constructed for p
NoteCreated(h, p, e) ==
    IF e.new THEN [h EXCEPT ![p].created = @ + 1] ELSE h

\* history: warm-up called ensure for p
NoteWarmed(h, p) == [h EXCEPT ![p].warm = @ + 1]

\* history: an auto-index leader handed index_all for p to a worker
NoteAutoRun(h, p, started) ==
    IF started THEN [h EXCEPT ![p].autoRuns = @ + 1] ELSE h

\* ------------------------------------------------------------- _warm_projects
RECURSIVE WarmFilter(_, _)
\* parse loop: de-duplicate, keep directories that have a disk cache
WarmFilter(entries, seen) ==
    IF entries = <<>> THEN <<>>
    ELSE LET e == Head(entries) IN
         IF e \in seen THEN WarmFilter(Tail(entries), seen)
         ELSE IF ~IsDir(e) \/ ~diskCache[e] THEN WarmFilter(Tail(entries), seen \cup {e})
         ELSE <<e>> \o WarmFilter(Tail(entries), seen \cup {e})

WarmCapNone(paths, projs) == paths

\* paths[:available]
WarmCap(paths, projs) ==
    LET available == IF MAX_PROJECTS - Cardinality(Loaded(projs)) > 0
                     THEN MAX_PROJECTS - Cardinality(Loaded(projs)) ELSE 0
    IN IF Len(paths) > available THEN SubSeq(paths, 1, available) ELSE paths

RECURSIVE WarmEnsure(_, _)
\* gather(_warm_project ...): each _warm_project runs its ensure atomically, in order
WarmEnsure(paths, acc) ==
    IF paths = <<>> THEN acc
    ELSE LET e == EnsureProject(acc.projects, acc.nextId, acc.embedder, Head(paths),
                                Head(paths) \in acc.bad)
         IN WarmEnsure(Tail(paths),
                       [acc EXCEPT !.projects = e.projects, !.nextId = e.nextId,
                                   !.embedder = e.embedder,
                                   !.hist = NoteWarmed(NoteCreated(acc.hist, Head(paths), e),
                                                       Head(paths))])

Warm ==
    /\ phase = "warm"
    /\ \E bad \in SUBSET {NumHot + 1} :
         LET paths == WarmCap(WarmFilter(warmList, {}), projects)
             r == WarmEnsure(paths, [projects |-> projects, nextId |-> nextId,
                                     embedder |-> embedder, hist |-> hist, bad |-> bad])
         IN /\ projects' = r.projects
            /\ nextId' = r.nextId
            /\ embedder' = r.embedder
            /\ hist' = r.hist
    /\ phase' = "serving"
    /\ UNCHANGED <<warmList, voyage_api_key, indexing_events, eventSet, watching,
                   diskCache, call>>
    /\ UNCHANGED wvars
    /\ UNCHANGED notKernel

Workers == 1..NumWorkers
\* the files index_file is called on concurrently
Files == 1..NumFiles
\* the files of the project tree
TreeFiles == 1..NumTreeFiles
\* file contents; 0 is the empty file
Contents == 0..MaxContent
NoHash == 0

IdleWorker ==
    [pc |-> "idle", file |-> 1, h |-> NoHash, stored |-> NoHash, n |-> 0,
     embeds |-> 0, writes |-> 0, err |-> FALSE, raised |-> FALSE]

\* no indexing going on
NoDelete == [called |-> FALSE, arg |-> <<>>, raised |-> FALSE, before |-> {}]

IdleIndexAll ==
    [pc |-> "idle", snapshot |-> {}, stale |-> {}, cleanupOk |-> TRUE, done |-> {},
     failed |-> {}]

NoHistory ==
    [events |-> 0, deletes |-> 0, last |-> 0, burst |-> TRUE, calls |-> 0, callAt |-> 0,
     dels |-> 0]

\* no tool call under way
NoTool ==
    [handler |-> "none", at |-> 0, result |-> "none", errors |-> 0, attempt |-> 1,
     raisedBy |-> "none", log |-> <<>>]

\* no add_chunks / delete_by_file sequence under way
NoProbe == [pc |-> "idle", file |-> 0, before |-> 0, had |-> 0, added |-> 0]

\* FileWatcher.stop() has not been called
NotStopped ==
    [done |-> FALSE, calls |-> [p \in WatchPaths |-> 0],
     dels |-> [p \in WatchPaths |-> 0]]

\* ChunkStore.__init__: no FTS index built; the table as found
NewChunkStore ==
    [fts_indexed |-> FALSE, rows |-> 0, ftsBuilds |-> 0, vecBuilds |-> 0,
     failed |-> FALSE, calls |-> 0, clears |-> 0]

\* an embedder call on a worker thread that has not begun
NoEmbedCall == [pc |-> "idle", op |-> "none", tokens |-> 0, seen |-> 0, calls |-> 0]

\* VoyageEmbedder.__init__: total_tokens_used = 0
NewEmbedder ==
    [total_tokens_used |-> 0, th |-> [w \in Workers |-> NoEmbedCall], reported |-> 0]

\* one activation of _embed_batch_with_retry: its batch, the loop variable,
\* where it stands, the client.embed calls it made, the sleeps it took and
\* the `delay` of the sleep under way (0 when it is not asleep)
NewFrame(batch) ==
    [batch |-> batch, attempt |-> 0, pc |-> "call", calls |-> 0, slept |-> 0,
     delay |-> 0, emb1 |-> <<>>]

NoFrame == NewFrame(<<>>)

\* no _embed_batch_with_retry call under way
NoRetry ==
    [result |-> "none", input |-> <<>>, stack |-> <<>>, out |-> <<>>,
     lastError |-> "none", raisedError |-> "none", last |-> "none",
     acted |-> NoFrame, splits |-> 0]

\* a handler that has seen no event, on a loop with nothing to run; no tool
\* call, no store caller, the watcher not stopped
WatchQuiet ==
    /\ now = 0
    /\ ready = <<>>
    /\ todo = 0
    /\ timers = <<>>
    /\ pending_files = [p \in WatchPaths |-> NoTimer]
    /\ wh = [p \in WatchPaths |-> NoHistory]
    /\ tool = NoTool
    /\ probe = NoProbe
    /\ stopped = NotStopped
    /\ cs = NewChunkStore
    /\ ve = NewEmbedder
    /\ rt = NoRetry

IndexQuiet ==
    /\ fileContent = [f \in TreeFiles |-> 1]
    /\ store = {}
    /\ wk = [w \in Workers |-> IdleWorker]
    /\ present = TreeFiles
    /\ ia = IdleIndexAll
    /\ rows = {}
    /\ lastDelete = NoDelete
    /\ WatchQuiet

\* the context _startup returns, before warm-up, but for the warm list
KernelFresh ==
    /\ IndexQuiet
    /\ phase = "warm"
    /\ voyage_api_key \in BOOLEAN
    /\ embedder = FALSE
    /\ projects = [p \in Paths |-> NoState]
    /\ nextId = 1
    /\ indexing_events = [p \in Paths |-> NoEvent]
    /\ eventSet = {}
    /\ watching = {}
    /\ watcherOf = <<>>
    /\ observers = <<>>
    /\ diskCache = [p \in Paths |-> p \in CachedPaths]
    /\ call = [t \in Tasks |-> IdleCall]
    /\ hist = [p \in Paths |-> [created |-> 0, autoRuns |-> 0, admin |-> FALSE,
                                failpop |-> FALSE, warm |-> 0]]

Init ==
    /\ KernelFresh
    /\ \E n \in WarmSizes : warmList = [i \in 1..n |-> NumHot + i]

\* ------------------------------------------------------- single-flight helpers
IsLeaderAlways(events, p) == TRUE

\* leader: no notification registered for the path yet
IsLeader(events, p) == events[p] = NoEvent

\* _finish_single_flight_indexing, under the lock: drop the entry if it is ours
FinishSingleFlight(events, p, e) ==
    IF events[p] = e THEN [events EXCEPT ![p] = NoEvent] ELSE events

\* event.set()
FireEventNever(fired, e) == fired

\* asyncio.Event.set
FireEvent(fired, e) == fired \cup {e}

EventIsSetNoWait(fired, e) == TRUE

\* event.wait() returns
EventIsSet(fired, e) == e \in fired

PopProjectKeeps(projs, p) == projs

\* app_ctx.projects.pop(project_path, None)
PopProject(projs, p) == [projs EXCEPT ![p] = NoState]

\* the retry loop goes round again
MoreAttemptsAlways(attempt) == TRUE

\* if attempt < AUTO_INDEX_MAX_ATTEMPTS: sleep and go round the loop again
MoreAttempts(attempt) == attempt < AUTO_INDEX_MAX_ATTEMPTS

\* delay_s = AUTO_INDEX_RETRY_BASE_DELAY_S * (2 ** (attempt - 1)), in ms
RetryDelay(attempt) == AUTO_INDEX_RETRY_BASE_DELAY_MS * (2 ^ (attempt - 1))

FollowerOutcomeLeaderError(projs, p) ==
    IF projs[p] = NoState THEN [got |-> NoState, result |-> ErrAutoIndex, pc |-> "done"]
    ELSE [got |-> projs[p], result |-> "none", pc |-> "exec"]

\* what a woken follower returns: (state, error) from the registry re-read
FollowerOutcome(projs, p) ==
    IF projs[p] = NoState THEN [got |-> NoState, result |-> ErrFollower, pc |-> "done"]
    ELSE [got |-> projs[p], result |-> "none", pc |-> "exec"]

\* history: the calls holding a state of p lose it to remove / shutdown
MarkEvicted(c, ps) ==
    IF c.path \in ps /\ c.got # NoState THEN [c EXCEPT !.evicted = TRUE] ELSE c

\* history: the calls holding a state of p lose it to a failed auto-index
MarkFailPopped(c, p) ==
    IF c.path = p /\ c.got # NoState THEN [c EXCEPT !.failpopped = TRUE] ELSE c

\* tool calls are numbered in arrival order
CanStart(t) ==
    /\ phase = "serving"
    /\ call[t].pc = "idle"
    /\ IF t = 1 THEN TRUE ELSE call[t - 1].pc # "idle"

\* ------------------------------------------------------------------ lgrep_search
\* lgrep_search up to its first suspension point: _ensure_search_project_state,
\* and inside it _auto_index_project_single_flight up to to_thread / event.wait
StartSearch(t, p) ==
    /\ CanStart(t)
    /\ \E initFails \in BOOLEAN :
        LET base == [call[t] EXCEPT !.op = "search", !.path = p]
            e == EnsureProject(projects, nextId, embedder, p, initFails)
        IN
        IF projects[p] # NoState
        THEN \* (a) in-memory state
             /\ call' = [call EXCEPT ![t] = [base EXCEPT !.got = projects[p], !.pc = "exec"]]
             /\ UNCHANGED <<projects, nextId, embedder, hist, indexing_events, eventSet>>
        ELSE IF diskCache[p]
        THEN \* (b) disk cache: ensure only
             /\ projects' = e.projects
             /\ nextId' = e.nextId
             /\ embedder' = e.embedder
             /\ hist' = NoteCreated(hist, p, e)
             /\ call' = [call EXCEPT ![t] =
                    IF e.err # "none"
                    THEN [base EXCEPT !.result = e.err, !.pc = "done"]
                    ELSE [base EXCEPT !.got = e.ret, !.pc = "exec"]]
             /\ UNCHANGED <<indexing_events, eventSet>>
        ELSE IF ~IsDir(p)
        THEN \* (d) not a directory
             /\ call' = [call EXCEPT ![t] = [base EXCEPT !.result = ErrPath, !.pc = "done"]]
             /\ UNCHANGED <<projects, nextId, embedder, hist, indexing_events, eventSet>>
        ELSE IF ~IsLeader(indexing_events, p)
        THEN \* (c) follower: wait on the registered notification
             /\ call' = [call EXCEPT ![t] =
                    [base EXCEPT !.event = indexing_events[p], !.role = "follower",
                                 !.pc = "wait"]]
             /\ UNCHANGED <<projects, nextId, embedder, hist, indexing_events, eventSet>>
        ELSE \* (c) leader: register the notification, ensure, start index_all
             /\ projects' = e.projects
             /\ nextId' = e.nextId
             /\ embedder' = e.embedder
             /\ hist' = NoteAutoRun(NoteCreated(hist, p, e), p, e.err = "none")
             /\ IF e.err # "none"
                THEN /\ indexing_events' =
                            FinishSingleFlight([indexing_events EXCEPT ![p] = t], p, t)
                     /\ eventSet' = FireEvent(eventSet, t)
                     /\ call' = [call EXCEPT ![t] =
                            [base EXCEPT !.event = t, !.role = "leader",
                                         !.outcome = "refused", !.result = e.err,
                                         !.pc = "done"]]
                ELSE /\ indexing_events' = [indexing_events EXCEPT ![p] = t]
                     /\ eventSet' = eventSet
                     /\ call' = [call EXCEPT ![t] =
                            [base EXCEPT !.event = t, !.role = "leader", !.got = e.ret,
                                         !.attempt = 1, !.pc = "ai_run"]]
    /\ UNCHANGED <<phase, warmList, voyage_api_key, watching, diskCache>>
    /\ UNCHANGED wvars
    /\ UNCHANGED notKernel

\* index_all on its worker thread reaches the store: the chunks table is created
IndexAllTouchTable(t) ==
    /\ call[t].pc \in {"ai_run", "ix_run"}
    /\ ~diskCache[call[t].path]
    /\ diskCache' = [diskCache EXCEPT ![call[t].path] = TRUE]
    /\ UNCHANGED <<phase, warmList, voyage_api_key, embedder, projects, nextId,
                   indexing_events, eventSet, watching, call, hist>>
    /\ UNCHANGED wvars
    /\ UNCHANGED notKernel

\* the leader's index_all returns: return state, then finally: finish
LeaderIndexOk(t) ==
    /\ call[t].pc = "ai_run"
    /\ diskCache[call[t].path]
    /\ indexing_events' = FinishSingleFlight(indexing_events, call[t].path, call[t].event)
    /\ eventSet' = FireEvent(eventSet, call[t].event)
    /\ call' = [call EXCEPT ![t] = [@ EXCEPT !.outcome = "ok", !.pc = "exec"]]
    /\ UNCHANGED <<phase, warmList, voyage_api_key, embedder, projects, nextId,
                   watching, diskCache, hist>>
    /\ UNCHANGED wvars
    /\ UNCHANGED notKernel

\* the leader's index_all raises: sleep and retry, or pop the state and give up
LeaderIndexFail(t) ==
    /\ call[t].pc = "ai_run"
    /\ IF MoreAttempts(call[t].attempt)
       THEN /\ call' = [call EXCEPT ![t] =
                    [@ EXCEPT !.delays = Append(@, RetryDelay(call[t].attempt)),
                              !.pc = "ai_sleep"]]
            /\ UNCHANGED <<projects, indexing_events, eventSet, hist>>
       ELSE LET p == call[t].path IN
            /\ projects' = PopProject(projects, p)
            /\ indexing_events' = FinishSingleFlight(indexing_events, p, call[t].event)
            /\ eventSet' = FireEvent(eventSet, call[t].event)
            /\ hist' = IF projects[p] # NoState
                       THEN [hist EXCEPT ![p].failpop = TRUE] ELSE hist
            /\ call' = [u \in Tasks |->
                    IF u = t
                    THEN [MarkFailPopped(call[t], p) EXCEPT
                              !.outcome = "failed", !.result = ErrAutoIndex, !.pc = "done"]
                    ELSE IF projects[p] # NoState THEN MarkFailPopped(call[u], p)
                    ELSE call[u]]
    /\ UNCHANGED <<phase, warmList, voyage_api_key, embedder, nextId, watching, diskCache>>
    /\ UNCHANGED wvars
    /\ UNCHANGED notKernel

\* asyncio.sleep(delay_s) is over: next attempt
LeaderRetry(t) ==
    /\ call[t].pc = "ai_sleep"
    /\ call' = [call EXCEPT ![t] = [@ EXCEPT !.attempt = @ + 1, !.pc = "ai_run"]]
    /\ hist' = NoteAutoRun(hist, call[t].path, TRUE)
    /\ UNCHANGED <<phase, warmList, voyage_api_key, embedder, projects, nextId,
                   indexing_events, eventSet, watching, diskCache>>
    /\ UNCHANGED wvars
    /\ UNCHANGED notKernel

\* a follower wakes from event.wait() and re-reads the registry
FollowerWake(t) ==
    /\ call[t].pc = "wait"
    /\ EventIsSet(eventSet, call[t].event)
    /\ LET f == FollowerOutcome(projects, call[t].path) IN
       call' = [call EXCEPT ![t] =
                    [@ EXCEPT !.got = f.got, !.result = f.result, !.pc = f.pc]]
    /\ UNCHANGED <<phase, warmList, voyage_api_key, embedder, projects, nextId,
                   indexing_events, eventSet, watching, diskCache, hist>>
    /\ UNCHANGED wvars
    /\ UNCHANGED notKernel

\* _execute_search: embed the query and search the store on a worker
SearchExec(t) ==
    /\ call[t].pc = "exec"
    /\ \E r \in {"results", ErrSearch} :
        call' = [call EXCEPT ![t] = [@ EXCEPT !.result = r, !.pc = "done"]]
    /\ UNCHANGED <<phase, warmList, voyage_api_key, embedder, projects, nextId,
                   indexing_events, eventSet, watching, diskCache, hist>>
    /\ UNCHANGED wvars
    /\ UNCHANGED notKernel

\* ------------------------------------------------------------------- lgrep_index
StartIndex(t, p) ==
    /\ CanStart(t)
    /\ \E initFails \in BOOLEAN :
        LET base == [call[t] EXCEPT !.op = "index", !.path = p]
            e == EnsureProject(projects, nextId, embedder, p, initFails)
        IN
        IF ~IsDir(p)
        THEN /\ call' = [call EXCEPT ![t] = [base EXCEPT !.result = ErrPath, !.pc = "done"]]
             /\ UNCHANGED <<projects, nextId, embedder, hist>>
        ELSE /\ projects' = e.projects
             /\ nextId' = e.nextId
             /\ embedder' = e.embedder
             /\ hist' = NoteCreated(hist, p, e)
             /\ call' = [call EXCEPT ![t] =
                    IF e.err # "none"
                    THEN [base EXCEPT !.result = e.err, !.pc = "done"]
                    ELSE [base EXCEPT !.got = e.ret, !.pc = "ix_run"]]
    /\ UNCHANGED <<phase, warmList, voyage_api_key, indexing_events, eventSet, watching,
                   diskCache>>
    /\ UNCHANGED wvars
    /\ UNCHANGED notKernel

\* lgrep_index: index_all returned or raised
IndexDone(t) ==
    /\ call[t].pc = "ix_run"
    /\ \E r \in {"indexed", ErrIndexing} :
        /\ r = "indexed" => diskCache[call[t].path]
        /\ call' = [call EXCEPT ![t] = [@ EXCEPT !.result = r, !.pc = "done"]]
    /\ UNCHANGED <<phase, warmList, voyage_api_key, embedder, projects, nextId,
                   indexing_events, eventSet, watching, diskCache, hist>>
    /\ UNCHANGED wvars
    /\ UNCHANGED notKernel

\* ------------------------------------------------- FileWatcher, _stop_watcher
NoObserver == 0

\* FileWatcher.start() on the watcher of state s, constructing the FileWatcher
\* first when the state has none.  startFails: Observer.start() raises.
NewObserverOnce(obs, s) ==
    IF \E i \in 1..Len(obs) : obs[i].state = s
    THEN [i \in 1..Len(obs) |-> IF obs[i].state = s THEN [obs[i] EXCEPT !.alive = TRUE]
                                ELSE obs[i]]
    ELSE Append(obs, [state |-> s, alive |-> TRUE, stops |-> 0, raised |-> FALSE])

\* Observer() constructed, scheduled and started by FileWatcher.start()
NewObserver(obs, s) ==
    Append(obs, [state |-> s, alive |-> TRUE, stops |-> 0, raised |-> FALSE])

StartWatcher(wo, obs, s, startFails) ==
    LET fw == IF s \in DOMAIN wo THEN wo[s] ELSE [running |-> FALSE, observer |-> NoObserver]
    IN IF fw.running
       THEN [watcherOf |-> wo, observers |-> obs, ok |-> TRUE]
       ELSE IF startFails
       THEN \* the Observer constructed is never started and never used again
            [watcherOf |-> [x \in DOMAIN wo \cup {s} |-> IF x = s THEN fw ELSE wo[x]],
             observers |-> obs, ok |-> FALSE]
       ELSE [watcherOf |-> [x \in DOMAIN wo \cup {s} |->
                                IF x = s
                                THEN [running |-> TRUE,
                                      observer |-> Len(NewObserver(obs, s))]
                                ELSE wo[x]],
             observers |-> NewObserver(obs, s),
             ok |-> TRUE]

\* what a call of stop() on a running watcher can do: the observer's thread
\* ends, or Observer.stop() / join() raises and the thread is left running
StopOutcomes == {"stopped", "raised"}

StopWatcherKeeps(wat, wo, obs, s, outcome) ==
    [watching |-> wat, watcherOf |-> wo, observers |-> obs, stopped |-> FALSE]

\* _stop_watcher(state): FileWatcher.stop() inside try / except / finally
StopWatcher(wat, wo, obs, s, outcome) ==
    IF s \notin DOMAIN wo \/ s \notin wat
    THEN [watching |-> wat, watcherOf |-> wo, observers |-> obs, stopped |-> FALSE]
    ELSE LET fw == wo[s]
             after == IF ~fw.running \/ fw.observer = NoObserver THEN obs
                      ELSE [obs EXCEPT ![fw.observer] =
                                [@ EXCEPT !.stops = @ + 1,
                                          !.alive = (outcome = "raised"),
                                          !.raised = (outcome = "raised")]]
         IN [watching |-> wat \ {s},
             watcherOf |-> [x \in DOMAIN wo \ {s} |-> wo[x]],
             observers |-> after,
             stopped |-> TRUE]

RECURSIVE StopWatchers(_, _, _, _, _)
\* the loop `for proj_path, state in projects.items(): _stop_watcher(...)`
StopWatchers(wat, wo, obs, ss, outcomes) ==
    IF ss = {} THEN [watching |-> wat, watcherOf |-> wo, observers |-> obs]
    ELSE LET s == CHOOSE x \in ss : \A y \in ss : x <= y
             r == StopWatcher(wat, wo, obs, s, outcomes[s])
         IN StopWatchers(r.watching, r.watcherOf, r.observers, ss \ {s}, outcomes)

\* the ProjectStates of the registry
LoadedStates == {projects[p] : p \in Loaded(projects)}

\* ------------------------------------------------------------- lgrep_watch_start
WatchStart(t, p) ==
    /\ CanStart(t)
    /\ \E initFails \in BOOLEAN, startFails \in BOOLEAN :
        LET base == [call[t] EXCEPT !.op = "watch_start", !.path = p]
            e == EnsureProject(projects, nextId, embedder, p, initFails)
            w == StartWatcher(watcherOf, observers, e.ret, startFails)
        IN
        IF ~IsDir(p)
        THEN /\ call' = [call EXCEPT ![t] = [base EXCEPT !.result = ErrPath, !.pc = "done"]]
             /\ UNCHANGED <<projects, nextId, embedder, hist, watching, wvars>>
        ELSE /\ projects' = e.projects
             /\ nextId' = e.nextId
             /\ embedder' = e.embedder
             /\ hist' = NoteCreated(hist, p, e)
             /\ IF e.err # "none"
                THEN /\ call' = [call EXCEPT ![t] =
                            [base EXCEPT !.result = e.err, !.pc = "done"]]
                     /\ UNCHANGED <<watching, wvars>>
                ELSE IF e.ret \in watching /\ e.ret \in DOMAIN watcherOf
                THEN \* already watching
                     /\ call' = [call EXCEPT ![t] =
                            [base EXCEPT !.got = e.ret, !.result = "watching",
                                         !.pc = "done"]]
                     /\ UNCHANGED <<watching, wvars>>
                ELSE /\ watcherOf' = w.watcherOf
                     /\ observers' = w.observers
                     /\ watching' = IF w.ok THEN watching \cup {e.ret} ELSE watching
                     /\ call' = [call EXCEPT ![t] =
                            [base EXCEPT !.got = e.ret,
                                         !.result = IF w.ok THEN "watching" ELSE ErrWatch,
                                         !.pc = "done"]]
    /\ UNCHANGED <<phase, warmList, voyage_api_key, indexing_events, eventSet, diskCache>>
    /\ UNCHANGED notKernel

\* ---------------------------------------------------------------- remove_project
RemovePaths == HotPaths

\* remove_project(app_ctx, path): the registry and watchers after it, and the
\* `removed` field of the dict it returns
RemoveProject(p, outcome) ==
    IF projects[p] = NoState
    THEN [projects |-> projects, watching |-> watching, watcherOf |-> watcherOf,
          observers |-> observers, removed |-> FALSE]
    ELSE LET r == StopWatcher(watching, watcherOf, observers, projects[p], outcome)
         IN [projects |-> PopProject(projects, p), watching |-> r.watching,
             watcherOf |-> r.watcherOf, observers |-> r.observers, removed |-> TRUE]

\* the outcomes to tell apart when the watcher of state s is stopped
OutcomesFor(s) == IF s \in watching THEN StopOutcomes ELSE {"stopped"}

Remove(p) ==
    /\ phase = "serving"
    /\ projects[p] # NoState
    /\ \E outcome \in OutcomesFor(projects[p]) :
        LET r == RemoveProject(p, outcome) IN
        /\ watching' = r.watching
        /\ watcherOf' = r.watcherOf
        /\ observers' = r.observers
        /\ projects' = r.projects
    /\ call' = [u \in Tasks |-> MarkEvicted(call[u], {p})]
    /\ hist' = [hist EXCEPT ![p].admin = TRUE]
    /\ UNCHANGED <<phase, warmList, voyage_api_key, embedder, nextId, indexing_events,
                   eventSet, diskCache>>
    /\ UNCHANGED notKernel

\* --------------------------------------------------------------------- _shutdown
Shutdown ==
    /\ phase = "serving"
    /\ phase' = "closed"
    /\ \E outcomes \in [LoadedStates \cap watching -> StopOutcomes] :
        LET r == StopWatchers(watching, watcherOf, observers,
                              LoadedStates \cap watching, outcomes) IN
        /\ watching' = r.watching
        /\ watcherOf' = r.watcherOf
        /\ observers' = r.observers
    /\ projects' = [p \in Paths |-> NoState]
    /\ embedder' = FALSE
    /\ call' = [u \in Tasks |-> MarkEvicted(call[u], Loaded(projects))]
    /\ hist' = [p \in Paths |-> IF projects[p] # NoState
                                THEN [hist[p] EXCEPT !.admin = TRUE] ELSE hist[p]]
    /\ UNCHANGED <<warmList, voyage_api_key, nextId, indexing_events, eventSet, diskCache>>
    /\ UNCHANGED notKernel

CallPaths == HotPaths

Next ==
    \/ Warm
    \/ \E t \in Tasks, p \in CallPaths : StartSearch(t, p)
    \/ \E t \in Tasks, p \in CallPaths : StartIndex(t, p)
    \/ \E t \in Tasks, p \in CallPaths : WatchStart(t, p)
    \/ \E t \in Tasks : IndexAllTouchTable(t)
    \/ \E t \in Tasks : LeaderIndexOk(t)
    \/ \E t \in Tasks : LeaderIndexFail(t)
    \/ \E t \in Tasks : LeaderRetry(t)
    \/ \E t \in Tasks : FollowerWake(t)
    \/ \E t \in Tasks : SearchExec(t)
    \/ \E t \in Tasks : IndexDone(t)
    \/ \E p \in RemovePaths : Remove(p)
    \/ Shutdown

Spec == Init /\ [][Next]_vars

\* ======================================================================
\* The indexing pipeline of one project: Indexer.index_file on worker
\* threads (index_all of lgrep_index and of auto-index, the watcher's
\* _do_index) against the project's ChunkStore
\* ======================================================================

\* hashlib.sha256(content).hexdigest(): never the empty string, and distinct
\* contents have distinct digests
Sha256(c) == c + 1

\* how many chunks chunk_file yields: none for an empty file, else one or two
ChunkCount(c) == IF c = 0 THEN 0 ELSE ((c - 1) % 2) + 1

\* ChunkStore.get_indexed_files: the distinct file_path values of the table
GetIndexedFiles(st) == {c.file : c \in st}

DeleteByFileKeeps(st, f) == st

DeleteByFileAll(st, f) == {}

\* ChunkStore.delete_by_file
DeleteByFile(st, f) == {c \in st : c.file # f}

\* ChunkStore.get_file_hash: the hash of one row of the file (limit 1), or none
FileHashes(st, f) ==
    IF \E c \in st : c.file = f THEN {c.hash : c \in {d \in st : d.file = f}} ELSE {NoHash}

HashMatchesNever(stored, h) == FALSE

\* index_file, `stored_hash == file_hash`
HashMatches(stored, h) == stored = h

\* _build_code_chunks: one row per chunk, chunk_index = position, fresh uuid.
\* A worker's rows of an earlier call for the file are gone when it adds again
\* (its own delete_by_file precedes), so <<worker, position>> names the uuid.
BuildCodeChunks(w, f, n, h) ==
    {[id |-> <<w, i>>, file |-> f, idx |-> i, hash |-> h] : i \in 0..(n - 1)}

\* read_bytes / read_text of a file: may fail, and fails when the file is gone
ReadOutcomes(f) == IF f \in present THEN BOOLEAN ELSE {TRUE}

\* a worker thread enters index_file(f)
IndexFileStart(w, f) ==
    /\ wk[w].pc \in {"idle", "done"}
    /\ wk' = [wk EXCEPT ![w] = [IdleWorker EXCEPT !.pc = "hash", !.file = f]]
    /\ UNCHANGED <<fileContent, store>>
    /\ UNCHANGED notIndexFile

\* _compute_file_hash: read the file and hash it ("" when the read fails)
ComputeHash(w) ==
    /\ wk[w].pc = "hash"
    /\ \E readFails \in ReadOutcomes(wk[w].file) :
        wk' = [wk EXCEPT ![w] =
                  IF readFails THEN [@ EXCEPT !.h = NoHash, !.pc = "chunk"]
                  ELSE [@ EXCEPT !.h = Sha256(fileContent[wk[w].file]), !.pc = "check"]]
    /\ UNCHANGED <<fileContent, store>>
    /\ UNCHANGED notIndexFile

\* get_file_hash and the skip test
CheckHash(w) ==
    /\ wk[w].pc = "check"
    /\ \E sh \in FileHashes(store, wk[w].file) :
        wk' = [wk EXCEPT ![w] =
                  IF HashMatches(sh, wk[w].h) THEN [@ EXCEPT !.stored = sh, !.pc = "done"]
                  ELSE [@ EXCEPT !.stored = sh, !.pc = "chunk"]]
    /\ UNCHANGED <<fileContent, store>>
    /\ UNCHANGED notIndexFile

\* chunk_file: read the file again and chunk it
ChunkFile(w) ==
    /\ wk[w].pc = "chunk"
    /\ \E readFails \in ReadOutcomes(wk[w].file) :
        wk' = [wk EXCEPT ![w] =
                  IF readFails THEN [@ EXCEPT !.err = TRUE, !.pc = "done"]
                  ELSE IF ChunkCount(fileContent[wk[w].file]) = 0
                  THEN [@ EXCEPT !.n = 0, !.pc = "delete_empty"]
                  ELSE [@ EXCEPT !.n = ChunkCount(fileContent[wk[w].file]), !.pc = "embed"]]
    /\ UNCHANGED <<fileContent, store>>
    /\ UNCHANGED notIndexFile

\* no chunks: delete_by_file and return
DeleteEmpty(w) ==
    /\ wk[w].pc = "delete_empty"
    /\ store' = DeleteByFile(store, wk[w].file)
    /\ wk' = [wk EXCEPT ![w] = [@ EXCEPT !.writes = @ + 1, !.pc = "done"]]
    /\ UNCHANGED fileContent
    /\ UNCHANGED notIndexFile

EmbedRaisedGoesOn(r) ==
    [r EXCEPT !.embeds = @ + 1, !.err = TRUE, !.raised = TRUE, !.pc = "delete"]

\* embed_documents raises: nothing in index_file catches it, the call is over
EmbedRaised(r) ==
    [r EXCEPT !.embeds = @ + 1, !.err = TRUE, !.raised = TRUE, !.pc = "done"]

\* embedder.embed_documents(texts): returns, or raises out of index_file
EmbedDocuments(w) ==
    /\ wk[w].pc = "embed"
    /\ \E fails \in BOOLEAN :
        wk' = [wk EXCEPT ![w] =
                  IF fails THEN EmbedRaised(@)
                  ELSE [@ EXCEPT !.embeds = @ + 1, !.pc = "delete"]]
    /\ UNCHANGED <<fileContent, store>>
    /\ UNCHANGED notIndexFile

\* storage.delete_by_file(rel_path) before the add
DeleteOld(w) ==
    /\ wk[w].pc = "delete"
    /\ store' = DeleteByFile(store, wk[w].file)
    /\ wk' = [wk EXCEPT ![w] = [@ EXCEPT !.writes = @ + 1, !.pc = "add"]]
    /\ UNCHANGED fileContent
    /\ UNCHANGED notIndexFile

\* storage.add_chunks(code_chunks)
AddChunks(w) ==
    /\ wk[w].pc = "add"
    /\ store' = store \cup BuildCodeChunks(w, wk[w].file, wk[w].n, wk[w].h)
    /\ wk' = [wk EXCEPT ![w] = [@ EXCEPT !.writes = @ + 1, !.pc = "done"]]
    /\ UNCHANGED fileContent
    /\ UNCHANGED notIndexFile

\* the user edits a file
EditFile(f, c) ==
    /\ fileContent[f] # c
    /\ fileContent' = [fileContent EXCEPT ![f] = c]
    /\ UNCHANGED <<store, wk>>
    /\ UNCHANGED notIndexFile

\* the server with one loaded project (the registry holds it) and no tool call
KernelServing ==
    /\ phase = "serving"
    /\ warmList = <<>>
    /\ voyage_api_key = TRUE
    /\ embedder = TRUE
    /\ projects = [p \in Paths |-> IF p = 1 THEN 1 ELSE NoState]
    /\ nextId = 2
    /\ indexing_events = [p \in Paths |-> NoEvent]
    /\ eventSet = {}
    /\ watching = {}
    /\ watcherOf = <<>>
    /\ observers = <<>>
    /\ diskCache = [p \in Paths |-> p \in CachedPaths]
    /\ call = [t \in Tasks |-> IdleCall]
    /\ hist = [p \in Paths |-> [created |-> IF p = 1 THEN 1 ELSE 0, autoRuns |-> 0,
                                admin |-> FALSE, failpop |-> FALSE, warm |-> 0]]

\* a loaded project with nothing indexed yet
InitIdx ==
    /\ KernelServing
    /\ WatchQuiet
    /\ fileContent \in {fc \in [TreeFiles -> Contents] : \A f \in TreeFiles \ Files : fc[f] = 1}
    /\ store = {}
    /\ wk = [w \in Workers |-> IdleWorker]
    /\ present = TreeFiles
    /\ ia = IdleIndexAll
    /\ rows = {}
    /\ lastDelete = NoDelete

NextIdx ==
    \/ \E w \in Workers, f \in Files : IndexFileStart(w, f)
    \/ \E w \in Workers : ComputeHash(w)
    \/ \E w \in Workers : CheckHash(w)
    \/ \E w \in Workers : ChunkFile(w)
    \/ \E w \in Workers : DeleteEmpty(w)
    \/ \E w \in Workers : EmbedDocuments(w)
    \/ \E w \in Workers : DeleteOld(w)
    \/ \E w \in Workers : AddChunks(w)
    \/ \E f \in Files, c \in Contents : EditFile(f, c)

SpecIdx == InitIdx /\ [][NextIdx]_vars

\* ----------------------------------------------------------------------
\* index_file calls one at a time (one index_all, or the watcher on a quiet
\* project): a call starts when no other is running, and the user edits
\* files between calls
\* ----------------------------------------------------------------------
AllIdle == \A u \in Workers : wk[u].pc = "idle"

IndexFileStartAlone(w, f) ==
    /\ AllIdle
    /\ IndexFileStart(w, f)

\* the caller takes the IndexStatus (or the exception); the frame is gone
IndexFileReturn(w) ==
    /\ wk[w].pc = "done"
    /\ wk' = [wk EXCEPT ![w] = IdleWorker]
    /\ UNCHANGED <<fileContent, store>>
    /\ UNCHANGED notIndexFile

EditFileQuiet(f, c) ==
    /\ AllIdle
    /\ EditFile(f, c)

NextSeq ==
    \/ \E w \in Workers, f \in Files : IndexFileStartAlone(w, f)
    \/ \E w \in Workers : ComputeHash(w)
    \/ \E w \in Workers : CheckHash(w)
    \/ \E w \in Workers : ChunkFile(w)
    \/ \E w \in Workers : DeleteEmpty(w)
    \/ \E w \in Workers : EmbedDocuments(w)
    \/ \E w \in Workers : DeleteOld(w)
    \/ \E w \in Workers : AddChunks(w)
    \/ \E w \in Workers : IndexFileReturn(w)
    \/ \E f \in Files, c \in Contents : EditFileQuiet(f, c)

SpecSeq == InitIdx /\ [][NextSeq]_vars

\* ----------------------------------------------------------------------
\* Indexer.index_all on one worker thread, while files are edited, deleted
\* and created
\* ----------------------------------------------------------------------
StaleFilesNone(indexed, current) == {}

\* stale_files = indexed_files - current_rel_paths
StaleFiles(indexed, current) == indexed \ current

\* the worker thread index_all runs on
AllWorker == 1

\* find_files, then the stale clean-up.  get_indexed_files returns the empty
\* set when the store read fails and a delete_by_file that raises ends the
\* clean-up (both logged, index_all goes on): any part of the stale files
\* may have been deleted.
IndexAllStart ==
    /\ ia.pc = "idle"
    /\ AllIdle
    /\ LET stale == StaleFiles(GetIndexedFiles(store), present) IN
       \E deleted \in SUBSET stale :
          /\ store' = {c \in store : c.file \notin deleted}
          /\ ia' = [IdleIndexAll EXCEPT !.pc = "loop", !.snapshot = present,
                                        !.stale = stale, !.cleanupOk = (deleted = stale)]
    /\ UNCHANGED <<fileContent, wk, present>>
    /\ UNCHANGED notIndexer

\* the next file of the loop: the first of the snapshot not yet visited
NextFile == CHOOSE f \in ia.snapshot \ ia.done :
                \A g \in ia.snapshot \ ia.done : f <= g

\* for file_path in all_files: file_status = self.index_file(file_path)
IndexAllNextFile ==
    /\ ia.pc = "loop"
    /\ ia.snapshot \ ia.done # {}
    /\ wk[AllWorker].pc = "idle"
    /\ IndexFileStart(AllWorker, NextFile)

\* index_file is back: go on with the next file, or let its exception leave index_all
IndexAllFileDone ==
    /\ ia.pc = "loop"
    /\ wk[AllWorker].pc = "done"
    /\ LET r == wk[AllWorker] IN
       ia' = [ia EXCEPT !.done = @ \cup {r.file},
                        !.failed = IF r.err THEN @ \cup {r.file} ELSE @,
                        !.pc = IF r.raised THEN "raised" ELSE "loop"]
    /\ wk' = [wk EXCEPT ![AllWorker] = IdleWorker]
    /\ UNCHANGED <<fileContent, store, present>>
    /\ UNCHANGED notIndexer

\* return status
IndexAllReturn ==
    /\ ia.pc = "loop"
    /\ ia.snapshot \ ia.done = {}
    /\ wk[AllWorker].pc = "idle"
    /\ ia' = [ia EXCEPT !.pc = "returned"]
    /\ UNCHANGED <<fileContent, store, wk, present>>
    /\ UNCHANGED notIndexer

\* the caller has the status or the exception
IndexAllOver ==
    /\ ia.pc \in {"returned", "raised"}
    /\ ia' = IdleIndexAll
    /\ UNCHANGED <<fileContent, store, wk, present>>
    /\ UNCHANGED notIndexer

\* a file is deleted or becomes ignored
DeleteFile(f) ==
    /\ f \in present
    /\ present' = present \ {f}
    /\ UNCHANGED <<fileContent, store, wk, ia>>
    /\ UNCHANGED notIndexer

\* a file is created (or no longer ignored)
CreateFile(f) ==
    /\ f \notin present
    /\ present' = present \cup {f}
    /\ UNCHANGED <<fileContent, store, wk, ia>>
    /\ UNCHANGED notIndexer

\* the user edits a file while no index_all runs
EditFileBetweenRuns(f, c) ==
    /\ ia.pc = "idle"
    /\ EditFile(f, c)

NextAll ==
    \/ IndexAllStart
    \/ IndexAllNextFile
    \/ ComputeHash(AllWorker)
    \/ CheckHash(AllWorker)
    \/ ChunkFile(AllWorker)
    \/ DeleteEmpty(AllWorker)
    \/ EmbedDocuments(AllWorker)
    \/ DeleteOld(AllWorker)
    \/ AddChunks(AllWorker)
    \/ IndexAllFileDone
    \/ IndexAllReturn
    \/ IndexAllOver
    \/ \E f \in TreeFiles, c \in Contents : EditFileBetweenRuns(f, c)
    \/ \E f \in TreeFiles : DeleteFile(f)
    \/ \E f \in TreeFiles : CreateFile(f)

SpecAll == InitIdx /\ [][NextAll]_vars

\* ======================================================================
\* ChunkStore.delete_by_file on path strings: the predicate text it builds
\* and what the table's delete does with it
\* ======================================================================

\* characters of a path: a letter, the single quote, and what an SQL fragment
\* is made of ("O" stands for the keyword OR)
Chars == {"a", "'", "O", "="}

PathStrings == UNION {[1..k -> Chars] : k \in 0..MaxPathLen}

\* the file paths of the chunks a table may hold
RowPaths == {<<>>, <<"a">>, <<"'">>, <<"a", "'">>}

EscapeNothing(value) == value

RECURSIVE _escape_sql_string(_)
\* value.replace("'", "''")
_escape_sql_string(value) ==
    IF value = <<>> THEN <<>>
    ELSE IF Head(value) = "'" THEN <<"'", "'">> \o _escape_sql_string(Tail(value))
    ELSE <<Head(value)>> \o _escape_sql_string(Tail(value))

\* f"file_path = '{safe_path}'"; "F" stands for the column name
Predicate(file_path) == <<"F", "=", "'">> \o _escape_sql_string(file_path) \o <<"'">>

RECURSIVE ScanLiteral(_, _, _)
\* the SQL string literal whose opening quote is just before position i:
\* '' inside it is one quote, a lone quote ends it
ScanLiteral(text, i, acc) ==
    IF i > Len(text) THEN [ok |-> FALSE, val |-> <<>>, next |-> i]
    ELSE IF text[i] = "'"
    THEN IF i + 1 <= Len(text) /\ text[i + 1] = "'"
         THEN ScanLiteral(text, i + 2, Append(acc, "'"))
         ELSE [ok |-> TRUE, val |-> acc, next |-> i + 1]
    ELSE ScanLiteral(text, i + 1, Append(acc, text[i]))

\* an operand: the column or a string literal
ParseOperand(text, i, row) ==
    IF i > Len(text) THEN [ok |-> FALSE, val |-> <<>>, next |-> i]
    ELSE IF text[i] = "F" THEN [ok |-> TRUE, val |-> row, next |-> i + 1]
    ELSE IF text[i] = "'" THEN ScanLiteral(text, i + 1, <<>>)
    ELSE [ok |-> FALSE, val |-> <<>>, next |-> i]

\* operand = operand
ParseComparison(text, i, row) ==
    LET l == ParseOperand(text, i, row) IN
    IF ~l.ok \/ l.next > Len(text) \/ text[l.next] # "="
    THEN [ok |-> FALSE, val |-> FALSE, next |-> i]
    ELSE LET r == ParseOperand(text, l.next + 1, row) IN
         [ok |-> r.ok, val |-> (l.val = r.val), next |-> r.next]

RECURSIVE ParsePredicate(_, _, _)
\* comparison { OR comparison }
ParsePredicate(text, i, row) ==
    LET c == ParseComparison(text, i, row) IN
    IF ~c.ok THEN [ok |-> FALSE, val |-> FALSE]
    ELSE IF c.next > Len(text) THEN [ok |-> TRUE, val |-> c.val]
    ELSE IF text[c.next] # "O" THEN [ok |-> FALSE, val |-> FALSE]
    ELSE LET rest == ParsePredicate(text, c.next + 1, row) IN
         [ok |-> rest.ok, val |-> (c.val \/ rest.val)]

\* table.delete(predicate): a predicate that does not parse raises and
\* deletes nothing; otherwise the rows it is true of go
TableDelete(table, text) ==
    IF ~ParsePredicate(text, 1, <<>>).ok
    THEN [rows |-> table, raised |-> TRUE]
    ELSE [rows |-> {r \in table : ~ParsePredicate(text, 1, r).val}, raised |-> FALSE]

\* delete_by_file(file_path)
DeleteByFileCall(file_path) ==
    /\ ~lastDelete.called
    /\ LET d == TableDelete(rows, Predicate(file_path)) IN
        /\ rows' = d.rows
        /\ lastDelete' = [called |-> TRUE, arg |-> file_path, raised |-> d.raised,
                          before |-> rows]
    /\ UNCHANGED notStorage

\* a project's table with some chunks in it, before a delete_by_file call
InitEsc ==
    /\ KernelServing
    /\ WatchQuiet
    /\ fileContent = [f \in TreeFiles |-> 1]
    /\ store = {}
    /\ wk = [w \in Workers |-> IdleWorker]
    /\ present = TreeFiles
    /\ ia = IdleIndexAll
    /\ rows \in SUBSET RowPaths
    /\ lastDelete = NoDelete

NextEsc ==
    /\ ~lastDelete.called
    /\ \E file_path \in PathStrings : DeleteByFileCall(file_path)

SpecEsc == InitEsc /\ [][NextEsc]_vars

\* ======================================================================
\* Properties of the registry kernel
\* ======================================================================
PastWait(t) == call[t].role = "follower" /\ call[t].pc \in {"exec", "done"}

\* the step is a tool call running the slow path of ensure for its path
EnsureSlowPath(t) ==
    /\ call[t].pc = "idle"
    /\ call'[t].pc # "idle"
    /\ projects[call'[t].path] = NoState
    /\ IsDir(call'[t].path)
    /\ \/ call'[t].op \in {"index", "watch_start"}
       \/ call'[t].op = "search" /\ (diskCache[call'[t].path] \/ call'[t].role = "leader")

\* C1: the registry never holds more than MAX_PROJECTS entries, and ensure for
\* a path not in the registry while it holds MAX_PROJECTS entries returns the
\* 'Maximum project limit' error and adds no entry.
C1_RegistryBounded ==
    /\ [](Cardinality(Loaded(projects)) <= MAX_PROJECTS)
    /\ [][\A t \in Tasks :
            (EnsureSlowPath(t) /\ Cardinality(Loaded(projects)) >= MAX_PROJECTS)
                => (call'[t].result = ErrLimit /\ projects' = projects)]_vars

C1_Witness ==
    \E t \in Tasks :
        call[t].result = ErrLimit /\ Cardinality(Loaded(projects)) = MAX_PROJECTS

\* the first auto-index of p is undisturbed: nothing removed p from the
\* registry and no auto-index of p has failed
Undisturbed(p) ==
    /\ ~hist[p].admin
    /\ \A u \in Tasks : ~(call[u].path = p /\ call[u].outcome = "failed")

FirstAttemptOk(l) ==
    call[l].role = "leader" /\ call[l].outcome = "ok" /\ call[l].attempt = 1

\* C2: at no time are two index_all executions started by auto-indexing in
\* progress for the same path; and when the leader's index_all succeeds on its
\* first attempt (the searches on the cold path being left to themselves),
\* auto-indexing invokes index_all for that path exactly once in total and
\* every search that arrived from the leader on is handed a state and runs
\* its query.
C2_SingleFlight ==
    /\ \A p \in Paths :
          Cardinality({t \in Tasks : call[t].pc = "ai_run" /\ call[t].path = p}) <= 1
    /\ \A l \in Tasks :
          (FirstAttemptOk(l) /\ Undisturbed(call[l].path)) =>
              /\ hist[call[l].path].autoRuns = 1
              /\ \A t \in Tasks :
                    (t >= l /\ call[t].op = "search" /\ call[t].path = call[l].path
                        /\ call[t].pc = "done")
                    => (call[t].got = call[l].got /\ call[t].result \in {"results", ErrSearch})

C2_Witness ==
    \E l, t \in Tasks :
        /\ l # t
        /\ FirstAttemptOk(l) /\ Undisturbed(call[l].path)
        /\ call[l].pc = "done" /\ call[l].result = "results"
        /\ call[t].op = "search" /\ call[t].path = call[l].path
        /\ call[t].pc = "done" /\ call[t].result = "results"

\* C3: a follower does not return before the leader whose notification it
\* waits on has fired it, and a leader fires its notification only when its
\* auto-index is over (index_all succeeded, failed for the last time, or
\* ensure was refused).
C3_FollowerWaits ==
    /\ \A t \in Tasks : PastWait(t) => call[t].event \in eventSet
    /\ \A l \in eventSet :
          /\ call[l].role = "leader"
          /\ call[l].pc \in {"exec", "done"}
          /\ call[l].outcome \in {"ok", "failed", "refused"}

C3_Witness ==
    \E t \in Tasks : PastWait(t) /\ call[t].pc = "done"

\* C4: every follower returns its leader's outcome: the ProjectState the
\* leader returned when the leader succeeded, an error when it failed.
C4_FollowerGetsLeaderOutcome ==
    \A t \in Tasks :
        PastWait(t) =>
            LET l == call[t].event IN
            /\ call[l].outcome = "ok" => call[t].got = call[l].got
            /\ call[l].outcome \in {"failed", "refused"} =>
                    (call[t].got = NoState /\ call[t].result \in Errors)

\* the ProjectStates whose auto-index ended in failure
FailedStates ==
    {call[l].got : l \in {u \in Tasks : call[u].outcome = "failed"}}

LeaderReturnsFailure(l) ==
    /\ call[l].role \in {"none", "leader"}
    /\ call[l].outcome = "none"
    /\ call'[l].outcome \in {"failed", "refused"}

\* C5: when an auto-index of P ends in failure, P is not in the registry at
\* the moment the leader returns, and the ProjectState of the failed attempt
\* is never in the registry afterwards (so no later call is handed it).
C5_FailureLeavesNoState ==
    /\ [][\A l \in Tasks :
            LeaderReturnsFailure(l) => projects'[call'[l].path] = NoState]_vars
    /\ [](\A p \in Paths : projects[p] = NoState \/ projects[p] \notin FailedStates)

C5_Witness ==
    \E l \in Tasks :
        /\ call[l].outcome = "failed" /\ call[l].attempt = AUTO_INDEX_MAX_ATTEMPTS
        /\ projects[call[l].path] = NoState

C7_OneStatePerPath ==
    \A p \in Paths :
        (~hist[p].admin /\ ~hist[p].failpop) =>
            /\ hist[p].created <= 1
            /\ \A t \in Tasks :
                  (call[t].path = p /\ call[t].got # NoState) =>
                      (hist[p].created = 1 /\ call[t].got = projects[p])

C7_Witness ==
    \E t, u \in Tasks :
        /\ t # u
        /\ call[t].path = call[u].path
        /\ call[t].op \in {"index", "watch_start"} /\ call[u].op \in {"index", "watch_start"}
        /\ call[t].got # NoState /\ call[t].got = call[u].got
        /\ hist[call[t].path].created = 1
        /\ ~hist[call[t].path].admin /\ ~hist[call[t].path].failpop

\* C8 as stated: once a call has obtained a ProjectState for P, the registry
\* maps P to that state until remove(P) or shutdown.
C8_StateStaysUntilEvicted ==
    \A t \in Tasks :
        (call[t].got # NoState /\ ~call[t].evicted) => projects[call[t].path] = call[t].got

\* C8 amended: once a call has obtained a ProjectState for P, the registry
\* maps P to that state until remove(P), shutdown, or the final failure of an
\* auto-index of P takes it out.
C8_StateStaysUntilEvictedOrFailed ==
    \A t \in Tasks :
        (call[t].got # NoState /\ ~call[t].evicted /\ ~call[t].failpopped)
            => projects[call[t].path] = call[t].got

C8_Witness ==
    \E t, u \in Tasks :
        /\ t < u
        /\ call[t].path = call[u].path
        /\ call[t].pc = "done" /\ call[u].pc = "done"
        /\ call[t].got # NoState /\ call[u].got = call[t].got
        /\ ~call[t].evicted /\ ~call[t].failpopped
        /\ projects[call[t].path] = call[t].got
\* ======================================================================
\* Properties of the indexing pipeline
\* ======================================================================

\* C9: in every reachable state of a project's store no two chunks share the
\* same (file_path, chunk_index), and all chunks with the same file_path carry
\* the same file_hash, also when index_file runs concurrently for one file.
C9_ChunkKeysUnique ==
    \A c, d \in store :
        c.file = d.file => (c.hash = d.hash /\ (c.idx = d.idx => c = d))

\* the worker's index_file found the stored hash equal to the file's hash
Skipped(w) ==
    /\ wk[w].pc \notin {"idle", "hash", "check"}
    /\ wk[w].h # NoHash
    /\ wk[w].stored = wk[w].h

\* C10: if the SHA-256 of the file's content equals the hash get_file_hash
\* reports for it, index_file returns at once: the step leaves the store
\* unchanged, and the call has made no embedder call and no store write.
C10_HashSkip ==
    /\ [][\A w \in Workers :
            (wk[w].pc = "check" /\ wk'[w].pc # "check" /\ wk'[w].stored = wk[w].h)
                => (wk'[w].pc = "done" /\ store' = store)]_vars
    /\ [](\A w \in Workers :
            Skipped(w) => (wk[w].pc = "done" /\ wk[w].embeds = 0 /\ wk[w].writes = 0))

C10_Witness ==
    \E w \in Workers :
        /\ Skipped(w) /\ wk[w].pc = "done"
        /\ \E c \in store : c.file = wk[w].file /\ c.hash = Sha256(fileContent[wk[w].file])

\* the step is worker w's index_file returning without raising
ReturnsNormally(w) ==
    /\ wk[w].pc # "done"
    /\ wk'[w].pc = "done"
    /\ ~wk'[w].raised

\* the number of chunks the returning call got from chunking the file (a
\* skipped call chunks nothing: the file's content is what it hashed)
Produced(w) ==
    IF wk'[w].h # NoHash /\ wk'[w].stored = wk'[w].h
    THEN ChunkCount(fileContent'[wk'[w].file])
    ELSE wk'[w].n

\* C11 as stated: after index_file(F) returns without raising, F is among the
\* indexed files iff chunking F produced at least one chunk.
C11_IndexedIffChunks ==
    [][\A w \in Workers :
            ReturnsNormally(w) =>
                (wk'[w].file \in GetIndexedFiles(store') <=> Produced(w) >= 1)]_vars

\* C11 amended: the same, for the returns that report no read failure
\* (chunk_file read the file; the status counts the file).
C11_IndexedIffChunksWhenRead ==
    [][\A w \in Workers :
            (ReturnsNormally(w) /\ ~wk'[w].err) =>
                (wk'[w].file \in GetIndexedFiles(store') <=> Produced(w) >= 1)]_vars

\* a call that found the file indexed and empty, and took its chunks out
C11_Witness ==
    \E w \in Workers :
        /\ wk[w].pc = "done" /\ ~wk[w].err /\ wk[w].n = 0
        /\ wk[w].stored # NoHash /\ wk[w].stored # wk[w].h
        /\ wk[w].file \notin GetIndexedFiles(store)

C13_FailuresNeverAbort ==
    ia.pc \in {"returned", "raised"} =>
        (ia.pc = "returned" /\ ia.done = ia.snapshot)

\* C14: for every path string F, quotes and SQL fragments included,
\* delete_by_file(F) does not raise and removes exactly the chunks whose
\* file_path equals F.
C14_DeleteExactlyFile ==
    lastDelete.called =>
        /\ ~lastDelete.raised
        /\ rows = {r \in lastDelete.before : r # lastDelete.arg}

\* a path with a quote in it was deleted next to another path with a quote
C14_Witness ==
    /\ lastDelete.called
    /\ lastDelete.arg = <<"'">>
    /\ lastDelete.arg \in lastDelete.before
    /\ <<"a", "'">> \in rows

\* ======================================================================
\* lgrep_search admission: where the project state comes from
\* ======================================================================
\* the paths searched: cold directories, a path that is no directory, and a
\* directory that has a disk cache
SearchPaths == HotPaths \cup {NoDir, NumHot + 1}

NextSearch ==
    \/ Warm
    \/ \E t \in Tasks, p \in SearchPaths : StartSearch(t, p)
    \/ \E t \in Tasks : IndexAllTouchTable(t)
    \/ \E t \in Tasks : LeaderIndexOk(t)
    \/ \E t \in Tasks : LeaderIndexFail(t)
    \/ \E t \in Tasks : LeaderRetry(t)
    \/ \E t \in Tasks : FollowerWake(t)
    \/ \E t \in Tasks : SearchExec(t)
    \/ \E p \in RemovePaths : Remove(p)
    \/ Shutdown

SpecSearch == Init /\ [][NextSearch]_vars

\* the step is call t entering lgrep_search for path p
SearchArrives(t, p) ==
    /\ call[t].pc = "idle"
    /\ call'[t].op = "search"
    /\ call'[t].path = p

\* nothing of the registry or of the notification map changes in the step
RegistryUntouched ==
    /\ projects' = projects
    /\ nextId' = nextId
    /\ indexing_events' = indexing_events
    /\ eventSet' = eventSet

\* C15: lgrep_search for P takes its project state (a) from the registry when
\* P is loaded, with no ensure and no index_all; (b) otherwise, when P has a
\* disk cache, from ensure(P) with no index_all; (c) otherwise, when P is an
\* existing directory, from the single-flight auto-index; (d) otherwise it
\* returns the path error and changes neither registry nor notification map.
C15_SearchResolutionOrder ==
    [][\A t \in Tasks, p \in Paths :
        SearchArrives(t, p) =>
            IF projects[p] # NoState
            THEN /\ call'[t].got = projects[p]
                 /\ call'[t].pc = "exec"
                 /\ call'[t].role = "none"
                 /\ RegistryUntouched
                 /\ hist' = hist
            ELSE IF diskCache[p]
            THEN /\ call'[t].role = "none"
                 /\ hist'[p].autoRuns = hist[p].autoRuns
                 /\ indexing_events' = indexing_events
                 /\ \/ /\ call'[t].pc = "exec"
                       /\ call'[t].got = projects'[p]
                       /\ projects'[p] = nextId
                       /\ hist'[p].created = hist[p].created + 1
                    \/ /\ call'[t].result \in {ErrLimit, ErrKey, ErrInit}
                       /\ projects' = projects
            ELSE IF p \in HotPaths \cup CachedPaths
            THEN /\ call'[t].role \in {"leader", "follower"}
                 /\ call'[t].role = "leader" =>
                        \/ /\ call'[t].pc = "ai_run"
                           /\ hist'[p].autoRuns = hist[p].autoRuns + 1
                        \/ call'[t].result \in {ErrLimit, ErrKey, ErrInit}
                 /\ call'[t].role = "follower" =>
                        /\ call'[t].pc = "wait"
                        /\ RegistryUntouched
            ELSE /\ call'[t].result = ErrPath
                 /\ call'[t].pc = "done"
                 /\ RegistryUntouched
                 /\ hist' = hist]_vars

\* one search was served from the disk cache alone and another was refused
\* with the path error
C15_Witness ==
    \E t \in Tasks, u \in Tasks :
        /\ call[t].op = "search" /\ call[t].path = NumHot + 1
        /\ warmList = <<>>
        /\ call[t].role = "none" /\ call[t].got # NoState
        /\ hist[NumHot + 1].autoRuns = 0
        /\ call[u].op = "search" /\ call[u].path = NoDir
        /\ call[u].result = ErrPath

\* ======================================================================
\* The watcher's IndexingHandler on the event loop (src/lgrep/watcher.py)
\* ======================================================================
\* Events arrive on the observer's thread at any time and are handed to the
\* loop with call_soon_threadsafe.  The loop runs iteration by iteration: it
\* moves the timers that are due to the end of the ready queue, then runs the
\* callbacks that are in the queue at that moment, oldest first, skipping
\* cancelled handles.  The loop may lag behind the clock by any amount.

\* milliseconds per clock tick
TickMs == 250

\* the delay handed to call_later, in ticks
DebounceTicks == debounce_ms \div TickMs

\* str.lower() on the suffixes of the watched paths
Lower(suffix) ==
    IF suffix = ".PY" THEN ".py"
    ELSE IF suffix = ".R" THEN ".r"
    ELSE suffix

SupportedAny(path) == TRUE

\* path.suffix.lower() in SUPPORTED_EXTENSIONS
Supported(path) == Lower(path.suffix) \in SUPPORTED_EXTENSIONS

\* FileDiscovery.is_ignored: the ignore files' rules, and always .git
is_ignored(path) == path.dir \in IgnoreRules \/ path.dir = ".git"

CancelNothing(ts, id) == ts

\* TimerHandle.cancel()
CancelTimer(ts, id) == [ts EXCEPT ![id].cancelled = TRUE]

Callback(kind, path, timer) == [kind |-> kind, path |-> path, timer |-> timer]

RECURSIVE SumOver(_, _)
SumOver(f, S) ==
    IF S = {} THEN 0
    ELSE LET x == CHOOSE y \in S : TRUE IN f[x] + SumOver(f, S \ {x})

\* events seen so far, over all paths
EventCount == SumOver([p \in WatchPaths |-> wh[p].events + wh[p].deletes], WatchPaths)

\* on_modified / on_created on the observer's thread
OnChanged(path) ==
    /\ EventCount < MaxEvents
    /\ ready' = Append(ready, Callback("schedule", path, NoTimer))
    /\ wh' = [wh EXCEPT ![path] =
                [@ EXCEPT !.events = @ + 1, !.last = now,
                          !.burst = /\ wh[path].burst
                                    /\ wh[path].events > 0 => now - wh[path].last < DebounceTicks]]
    /\ UNCHANGED <<now, todo, timers, pending_files>>
    /\ UNCHANGED notHandler

\* on_deleted on the observer's thread
OnDeleted(path) ==
    /\ EventCount < MaxEvents
    /\ ready' = Append(ready, Callback("delete", path, NoTimer))
    /\ wh' = [wh EXCEPT ![path].deletes = @ + 1]
    /\ UNCHANGED <<now, todo, timers, pending_files>>
    /\ UNCHANGED notHandler

\* the clock advances
Tick ==
    /\ now < MaxTime
    /\ now' = now + 1
    /\ UNCHANGED <<ready, todo, timers, pending_files, wh>>
    /\ UNCHANGED notHandler

\* the timers the loop moves to the ready queue: scheduled, not cancelled, due
DueTimers ==
    {id \in 1..Len(timers) :
        /\ timers[id].where = "scheduled"
        /\ ~timers[id].cancelled
        /\ timers[id].when <= now}

RECURSIVE InDueOrder(_)
\* the due timers by deadline, earlier handles first
InDueOrder(ids) ==
    IF ids = {} THEN <<>>
    ELSE LET first == CHOOSE id \in ids :
                        \A other \in ids :
                            \/ timers[id].when < timers[other].when
                            \/ timers[id].when = timers[other].when /\ id <= other
         IN <<Callback("timer", timers[first].path, first)>> \o InDueOrder(ids \ {first})

\* the loop starts an iteration
RunOnce ==
    /\ todo = 0
    /\ ready # <<>> \/ DueTimers # {}
    /\ ready' = ready \o InDueOrder(DueTimers)
    /\ todo' = Len(ready')
    /\ timers' = [id \in 1..Len(timers) |->
                    IF id \in DueTimers THEN [timers[id] EXCEPT !.where = "ready"]
                    ELSE timers[id]]
    /\ UNCHANGED <<now, pending_files, wh>>
    /\ UNCHANGED notHandler

\* _debounced_schedule(path) on the loop
DebouncedSchedule(path) ==
    IF ~Supported(path) \/ is_ignored(path)
    THEN UNCHANGED <<timers, pending_files, wh>>
    ELSE LET cancelled == IF pending_files[path] # NoTimer
                          THEN CancelTimer(timers, pending_files[path])
                          ELSE timers
         IN /\ timers' = Append(cancelled,
                                [path |-> path, when |-> now + DebounceTicks,
                                 cancelled |-> FALSE, where |-> "scheduled"])
            /\ pending_files' = [pending_files EXCEPT ![path] = Len(timers) + 1]
            /\ wh' = wh

\* the loop runs the oldest callback of the iteration
RunCallback ==
    /\ todo > 0
    /\ todo' = todo - 1
    /\ LET cb == Head(ready) IN
       CASE cb.kind = "schedule" ->
              /\ DebouncedSchedule(cb.path)
              /\ ready' = Tail(ready)
         [] cb.kind = "timer" ->
              \* a cancelled handle is dropped; else the lambda creates the task
              /\ ready' = IF timers[cb.timer].cancelled THEN Tail(ready)
                          ELSE Append(Tail(ready), Callback("task", cb.path, cb.timer))
              /\ timers' = [timers EXCEPT ![cb.timer].where = "done"]
              /\ UNCHANGED <<pending_files, wh>>
         [] cb.kind = "task" ->
              \* _do_index up to run_in_executor(index_file)
              /\ pending_files' = [pending_files EXCEPT ![cb.path] = NoTimer]
              /\ wh' = [wh EXCEPT ![cb.path] = [@ EXCEPT !.calls = @ + 1, !.callAt = now]]
              /\ ready' = Tail(ready)
              /\ UNCHANGED timers
         [] cb.kind = "delete" ->
              \* _delete_file: storage.delete_by_file
              /\ ready' = Tail(ready)
              /\ wh' = [wh EXCEPT ![cb.path].dels = @ + 1]
              /\ UNCHANGED <<timers, pending_files>>
    /\ UNCHANGED now
    /\ UNCHANGED notHandler

InitWatch ==
    /\ KernelServing
    /\ IndexQuiet

NextWatch ==
    \/ \E path \in WatchPaths : OnChanged(path)
    \/ \E path \in WatchPaths : OnDeleted(path)
    \/ Tick
    \/ RunOnce
    \/ RunCallback

SpecWatch == InitWatch /\ [][NextWatch]_vars

\* the paths _debounced_schedule lets through
Indexable ==
    {p \in WatchPaths :
        /\ Lower(p.suffix) \in SUPPORTED_EXTENSIONS
        /\ p.dir \notin IgnoreRules \cup {".git"}}

\* nothing is left to happen for the path: no callback of it is queued and no
\* timer of it is waiting
Settled(p) ==
    /\ \A i \in 1..Len(ready) : ready[i].path = p => ready[i].kind = "delete"
    /\ \A id \in 1..Len(timers) :
            (timers[id].path = p /\ ~timers[id].cancelled) => timers[id].where = "done"

C17_FilteredNeverScheduled ==
    \A p \in WatchPaths \ Indexable :
        /\ pending_files[p] = NoTimer
        /\ \A id \in 1..Len(timers) : timers[id].path # p
        /\ \A i \in 1..Len(ready) : ready[i].path = p => ready[i].kind \in {"schedule", "delete"}
        /\ wh[p].calls = 0

\* an unsupported and an ignored path have each had an event, and the loop has
\* run both callbacks
C17_Witness ==
    \E p \in WatchPaths, q \in WatchPaths :
        /\ Lower(p.suffix) \notin SUPPORTED_EXTENSIONS
        /\ q.dir \in IgnoreRules \cup {".git"}
        /\ wh[p].events >= 1
        /\ wh[q].events >= 1
        /\ ready = <<>>

\* ======================================================================
\* Watcher life cycle: lgrep_watch_start, lgrep_watch_stop, remove_project
\* ======================================================================
\* lgrep_watch_stop(path)
WatchStop(p) ==
    /\ phase = "serving"
    /\ LET s == projects[p]
           quiet == s = NoState \/ s \notin watching \/ s \notin DOMAIN watcherOf
       IN \E outcome \in (IF quiet THEN {"stopped"} ELSE StopOutcomes) :
            LET r == StopWatcher(watching, watcherOf, observers, s, outcome) IN
            IF quiet
            THEN UNCHANGED <<watching, wvars>>
            ELSE /\ watching' = r.watching
                 /\ watcherOf' = r.watcherOf
                 /\ observers' = r.observers
    /\ UNCHANGED <<phase, warmList, voyage_api_key, embedder, projects, nextId,
                   indexing_events, eventSet, diskCache, call, hist>>
    /\ UNCHANGED notKernel

\* lgrep_watch_stop(): every project of the registry
WatchStopAll ==
    /\ phase = "serving"
    /\ \E outcomes \in [LoadedStates \cap watching -> StopOutcomes] :
        LET r == StopWatchers(watching, watcherOf, observers,
                              LoadedStates \cap watching, outcomes) IN
        /\ watching' = r.watching
        /\ watcherOf' = r.watcherOf
        /\ observers' = r.observers
    /\ UNCHANGED <<phase, warmList, voyage_api_key, embedder, projects, nextId,
                   indexing_events, eventSet, diskCache, call, hist>>
    /\ UNCHANGED notKernel

\* remove_project(app_ctx, p) as a numbered call, its return value kept
RemoveCall(t, p) ==
    /\ CanStart(t)
    /\ \E outcome \in OutcomesFor(projects[p]) :
        LET r == RemoveProject(p, outcome) IN
        /\ watching' = r.watching
        /\ watcherOf' = r.watcherOf
        /\ observers' = r.observers
        /\ projects' = r.projects
        /\ call' = [u \in Tasks |->
                IF u = t
                THEN [call[t] EXCEPT !.op = "remove", !.path = p, !.got = projects[p],
                                     !.result = IF r.removed THEN "removed"
                                                ELSE "not loaded",
                                     !.pc = "done"]
                ELSE IF r.removed THEN MarkEvicted(call[u], {p}) ELSE call[u]]
        /\ hist' = IF r.removed THEN [hist EXCEPT ![p].admin = TRUE] ELSE hist
    /\ UNCHANGED <<phase, warmList, voyage_api_key, embedder, nextId, indexing_events,
                   eventSet, diskCache>>
    /\ UNCHANGED notKernel

\* the projects the life-cycle calls name: cold directories and a cached one
LifePaths == HotPaths \cup {NumHot + 1}

NextLife ==
    \/ Warm
    \/ \E t \in Tasks, p \in LifePaths : WatchStart(t, p)
    \/ \E p \in LifePaths : WatchStop(p)
    \/ WatchStopAll
    \/ \E t \in Tasks, p \in LifePaths : RemoveCall(t, p)
    \/ Shutdown

SpecLife == Init /\ [][NextLife]_vars

\* C19: after _shutdown returns, the registry is empty, the embedder reference
\* is released, and every watcher that was running has had stop() called
\* exactly once and its ProjectState has watching = False and no watcher,
\* whether or not a stop() raised.
C19_ShutdownStopsEveryWatcher ==
    phase = "closed" =>
        /\ Loaded(projects) = {}
        /\ ~embedder
        /\ \A i \in 1..Len(observers) :
            /\ observers[i].stops = 1
            /\ observers[i].state \notin watching
            /\ observers[i].state \notin DOMAIN watcherOf

\* the observers that have belonged to ProjectState s
ObserversOf(s) == {i \in 1..Len(observers) : observers[i].state = s}

\* the step is call t's lgrep_watch_start on p starting a watcher successfully
\* on a ProjectState whose earlier watcher has been stopped
Restarts(t, p) ==
    /\ call[t].pc = "idle"
    /\ call'[t].op = "watch_start"
    /\ call'[t].path = p
    /\ call'[t].result = "watching"
    /\ projects[p] # NoState
    /\ projects[p] \notin watching
    /\ ObserversOf(projects[p]) # {}

Removes(t, p) ==
    /\ call[t].pc = "idle"
    /\ call'[t].op = "remove"
    /\ call'[t].path = p

\* C20: remove_project(P) on a loaded project stops its watcher if running
\* and deletes only P's registry entry, leaving every other entry and P's
\* disk cache as they were, so that a later ensure(P) constructs a new
\* ProjectState over the same cache; on a path that is not loaded it changes
\* nothing and reports removed = false.
C20_RemoveFrame ==
    [][/\ \A t \in Tasks, p \in Paths :
            Removes(t, p) =>
                IF projects[p] # NoState
                THEN LET s == projects[p] IN
                     /\ call'[t].result = "removed"
                     /\ projects' = [projects EXCEPT ![p] = NoState]
                     /\ diskCache' = diskCache
                     /\ watching' = watching \ {s}
                     /\ s \in watching => s \notin DOMAIN watcherOf'
                     /\ \A x \in DOMAIN watcherOf \ {s} :
                            x \in DOMAIN watcherOf' /\ watcherOf'[x] = watcherOf[x]
                     /\ \A i \in 1..Len(observers) :
                            IF s \in watching /\ watcherOf[s].observer = i
                            THEN observers'[i].stops = observers[i].stops + 1
                            ELSE observers'[i] = observers[i]
                ELSE /\ call'[t].result = "not loaded"
                     /\ UNCHANGED <<projects, diskCache, watching, wvars, nextId, hist,
                                    embedder, indexing_events>>
       /\ \A p \in Paths :
            (hist[p].admin /\ projects[p] = NoState /\ projects'[p] # NoState) =>
                /\ projects'[p] = nextId
                /\ nextId' = nextId + 1
                /\ \A u \in Tasks : call[u].got # projects'[p]
                /\ diskCache'[p] = diskCache[p]]_vars

\* a loaded project was removed and a later call constructed a new
\* ProjectState for it, its disk cache still there
C20_Witness ==
    \E t \in Tasks, u \in Tasks :
        /\ t < u
        /\ call[t].op = "remove" /\ call[t].result = "removed"
        /\ call[u].op = "watch_start" /\ call[u].path = call[t].path
        /\ call[u].got # NoState
        /\ call[u].got # call[t].got
        /\ projects[call[u].path] = call[u].got
        /\ diskCache[call[u].path]

\* ======================================================================
\* Warm-up over LGREP_WARM_PATHS lists with entries that do not qualify
\* ======================================================================
\* entries that must not be warmed, or not twice: a path that is no
\* directory, a directory without a disk cache, a directory listed again
JunkEntries == {NoDir, 1, NumHot + 1}

JunkLists == UNION {[1..k -> JunkEntries] : k \in 0..MaxJunk}

InitWarm ==
    /\ KernelFresh
    /\ \E n \in WarmSizes, before \in JunkLists, after \in JunkLists :
            warmList = before \o [i \in 1..n |-> NumHot + i] \o after

NextWarm == Warm

SpecWarm == InitWarm /\ [][NextWarm]_vars

\* positions of the list whose entry is an existing directory with a disk
\* cache and has not occurred earlier in the list
Qualifies(i) ==
    /\ warmList[i] # NoDir
    /\ diskCache[warmList[i]]
    /\ \A j \in 1..(i - 1) : warmList[j] # warmList[i]

\* the first MAX_PROJECTS - len(registry) qualifying entries, in list order
WarmTargets ==
    {warmList[i] : i \in {k \in 1..Len(warmList) :
        /\ Qualifies(k)
        /\ Cardinality({j \in 1..k : Qualifies(j)})
                <= MAX_PROJECTS - Cardinality(Loaded(projects))}}

\* C21: warm-up calls ensure at most once per distinct path, only for
\* existing directories that have a disk cache, and only for the first
\* MAX_PROJECTS - len(registry) of them in list order; after warm-up the
\* registry holds at most MAX_PROJECTS entries.
C21_WarmEnsuresCappedDistinct ==
    [][(phase = "warm" /\ phase' = "serving") =>
        LET targets == WarmTargets IN
        /\ \A p \in Paths :
            hist'[p].warm = hist[p].warm + (IF p \in targets THEN 1 ELSE 0)
        /\ Cardinality(targets) <= MAX_PROJECTS - Cardinality(Loaded(projects))
        /\ Loaded(projects') \subseteq Loaded(projects) \cup targets
        /\ Cardinality(Loaded(projects')) <= MAX_PROJECTS]_vars

\* warm-up is over for a list that held a non-directory, a cold directory, a
\* repeated entry and more cached directories than the limit
C21_Witness ==
    /\ phase = "serving"
    /\ \E i \in 1..Len(warmList) : warmList[i] = NoDir
    /\ \E i \in 1..Len(warmList) : warmList[i] = 1
    /\ \E i \in 1..Len(warmList), j \in 1..Len(warmList) : i < j /\ warmList[i] = warmList[j]
    /\ Cardinality({warmList[i] : i \in 1..Len(warmList)} \cap CachedPaths) > MAX_PROJECTS
    /\ Cardinality(Loaded(projects)) = MAX_PROJECTS
    /\ \A p \in Paths : hist[p].warm <= 1

\* ======================================================================
\* Every handler that needs ensure, on cold and on cached directories
\* ======================================================================
NextEnsure ==
    \/ Warm
    \/ \E t \in Tasks, p \in SearchPaths : StartSearch(t, p)
    \/ \E t \in Tasks, p \in LifePaths : StartIndex(t, p)
    \/ \E t \in Tasks, p \in LifePaths : WatchStart(t, p)
    \/ \E t \in Tasks : IndexAllTouchTable(t)
    \/ \E t \in Tasks : LeaderIndexOk(t)
    \/ \E t \in Tasks : LeaderIndexFail(t)
    \/ \E t \in Tasks : LeaderRetry(t)
    \/ \E t \in Tasks : FollowerWake(t)
    \/ \E t \in Tasks : SearchExec(t)
    \/ \E t \in Tasks : IndexDone(t)
    \/ \E p \in RemovePaths : Remove(p)
    \/ Shutdown

SpecEnsure == Init /\ [][NextEnsure]_vars

\* the step is call t arriving at a handler that needs ensure, for a
\* directory p that is not in the registry
NeedsEnsure(t, p) ==
    /\ call[t].pc = "idle"
    /\ call'[t].op \in {"search", "index", "watch_start"}
    /\ call'[t].path = p
    /\ p # NoDir
    /\ projects[p] = NoState

\* C22: with no embedding API key, every operation that needs ensure for a
\* path not in the registry (index, watch_start, search by disk cache or by
\* auto-index) returns the 'VOYAGE_API_KEY not set' error at once, after one
\* ensure and no retry, and creates no Embedder, no ChunkStore and no
\* registry entry.
C22_NoKeyTerminalError ==
    [][\A t \in Tasks, p \in Paths :
        (NeedsEnsure(t, p) /\ ~voyage_api_key) =>
            /\ call'[t].result = ErrKey
            /\ call'[t].pc = "done"
            /\ call'[t].attempt = 0
            /\ hist' = hist
            /\ projects' = projects
            /\ nextId' = nextId
            /\ ~embedder'
            /\ indexing_events'[p] = NoEvent]_vars

\* without a key, an auto-index leader and a search by disk cache have both
\* been refused
C22_Witness ==
    /\ ~voyage_api_key
    /\ \E t \in Tasks, u \in Tasks :
        /\ call[t].op = "search" /\ call[t].path \in HotPaths
        /\ call[t].role = "leader" /\ call[t].result = ErrKey
        /\ call[u].op = "search" /\ call[u].path \in CachedPaths
        /\ call[u].result = ErrKey

\* ---------------------------------------------------------------------------
\* The tool handlers as sequences of calls into the components
\* ---------------------------------------------------------------------------

\* the components whose exceptions the handlers translate
Components == {"embedder", "store", "indexer", "watcher"}

\* One call made by a handler: the component called, whether the call sits in
\* a try block with an `except Exception` clause, and what that clause does:
\*   "envelope"  return _error_response(...)
\*   "retry"     the auto-index loop: sleep and run the call again while
\*               attempts are left, else return _error_response(...)
\*   "goon"      swallow the exception and go on at call number `to`
\* "fs" calls (Path.resolve, has_disk_cache, exists, is_dir) sit in no try.
Site(comp, name, try, on, to) ==
    [comp |-> comp, name |-> name, try |-> try, on |-> on, to |-> to]

Unguarded(name) == Site("fs", name, FALSE, "none", 0)

\* _ensure_project_initialized building a ProjectState
EnsureSites ==
    <<Site("embedder", "VoyageEmbedder", TRUE, "envelope", 0),
      Site("store", "ChunkStore", TRUE, "envelope", 0),
      Site("indexer", "Indexer", TRUE, "envelope", 0)>>

\* _execute_search
ExecuteSearchSites ==
    <<Site("embedder", "embed_query", TRUE, "envelope", 0),
      Site("store", "search_hybrid", TRUE, "envelope", 0)>>

\* _get_project_stats of the project whose block starts at call number `from`
StatsSites(from) ==
    <<Site("store", "count_chunks", TRUE, "goon", from + 2),
      Site("store", "get_indexed_files", TRUE, "goon", from + 2)>>

Handlers ==
    {"search_loaded", "search_cached", "search_cold", "index", "status_loaded",
     "status_cached", "status_all", "watch_start", "watch_stop", "watch_stop_all"}

\* the calls of each handler, in the order of the code, by the branch taken
HandlerSites(h) ==
    CASE h = "search_loaded" ->
           <<Unguarded("resolve")>> \o ExecuteSearchSites
      [] h = "search_cached" ->
           <<Unguarded("resolve"), Unguarded("has_disk_cache")>>
           \o EnsureSites \o ExecuteSearchSites
      [] h = "search_cold" ->
           <<Unguarded("resolve"), Unguarded("has_disk_cache"), Unguarded("is_dir")>>
           \o EnsureSites
           \o <<Site("indexer", "index_all", TRUE, "retry", 0)>>
           \o ExecuteSearchSites
      [] h = "index" ->
           <<Unguarded("resolve"), Unguarded("is_dir")>>
           \o EnsureSites
           \o <<Site("indexer", "index_all", TRUE, "envelope", 0)>>
      [] h = "status_loaded" ->
           <<Unguarded("resolve")>> \o StatsSites(2)
      [] h = "status_cached" ->
           <<Unguarded("resolve"), Unguarded("has_disk_cache"),
             Site("store", "ChunkStore", TRUE, "goon", 6),
             Site("store", "count_chunks", TRUE, "goon", 6),
             Site("store", "get_indexed_files", TRUE, "goon", 6)>>
      [] h = "status_all" ->
           StatsSites(1) \o StatsSites(3)
      [] h = "watch_start" ->
           <<Unguarded("resolve"), Unguarded("is_dir")>>
           \o EnsureSites
           \o <<Site("watcher", "FileWatcher", TRUE, "envelope", 0),
                Site("watcher", "start", TRUE, "envelope", 0)>>
      [] h = "watch_stop" ->
           <<Unguarded("resolve"), Site("watcher", "stop", TRUE, "goon", 3)>>
      [] h = "watch_stop_all" ->
           <<Site("watcher", "stop", TRUE, "goon", 2),
             Site("watcher", "stop", TRUE, "goon", 3)>>

CaughtNever(site) == FALSE

\* an exception raised at the call reaches an `except Exception` clause
Caught(site) == site.try

\* the call the handler is at
AtSite == HandlerSites(tool.handler)[tool.at]

\* the handler moves to call number n, or returns its success JSON past the
\* last call
GoOn(tl, n) ==
    IF n > Len(HandlerSites(tl.handler))
    THEN [tl EXCEPT !.at = n, !.result = "success"]
    ELSE [tl EXCEPT !.at = n]

\* the transport calls a handler
ToolCall(h) ==
    /\ tool.result # "running"
    /\ tool' = [handler |-> h, at |-> 1, result |-> "running", errors |-> 0,
                attempt |-> 1, raisedBy |-> "none", log |-> <<>>]
    /\ UNCHANGED <<probe, stopped>>
    /\ UNCHANGED yvars
    /\ UNCHANGED <<kvars, ivars, avars, evars, dvars>>

\* the call the handler is at returns
SiteReturns ==
    /\ tool.result = "running"
    /\ tool' = GoOn([tool EXCEPT !.log = Append(@, "ok")], tool.at + 1)
    /\ UNCHANGED <<probe, stopped>>
    /\ UNCHANGED yvars
    /\ UNCHANGED <<kvars, ivars, avars, evars, dvars>>

\* the call the handler is at raises an Exception
SiteRaises ==
    /\ tool.result = "running"
    /\ LET site == AtSite
           tl == [tool EXCEPT !.log = Append(@, "raise"), !.errors = @ + 1]
       IN  tool' =
             IF ~Caught(site)
             THEN [tl EXCEPT !.result = "raised", !.raisedBy = site.comp]
             ELSE IF site.on = "envelope"
             THEN [tl EXCEPT !.result = "error"]
             ELSE IF site.on = "retry"
             THEN IF tl.attempt < AUTO_INDEX_MAX_ATTEMPTS
                  THEN [tl EXCEPT !.attempt = @ + 1]
                  ELSE [tl EXCEPT !.result = "error"]
             ELSE GoOn(tl, site.to)
    /\ UNCHANGED <<probe, stopped>>
    /\ UNCHANGED yvars
    /\ UNCHANGED <<kvars, ivars, avars, evars, dvars>>

NextTool ==
    \/ \E h \in Handlers : ToolCall(h)
    \/ SiteReturns
    \/ SiteRaises

SpecTool == InitWatch /\ [][NextTool]_vars

\* C23: a tool handler that has ended returned a JSON string, a success
\* envelope or an error envelope, and it raised only if the exception came
\* from a call that is not a call of the embedder, the chunk store, the
\* indexer or the watcher; every exception of these four is translated.
C23_HandlersNeverRaise ==
    /\ tool.result \in {"none", "running", "success", "error", "raised"}
    /\ tool.result = "raised" => tool.raisedBy \notin Components
    /\ tool.result = "error" => tool.errors >= 1
    /\ tool.result = "success" => tool.at = Len(HandlerSites(tool.handler)) + 1

\* some handler got an exception from each kind of clause and still returned
C23_Witness ==
    /\ tool.handler = "search_cold"
    /\ tool.result = "error"
    /\ tool.errors = AUTO_INDEX_MAX_ATTEMPTS
    /\ tool.log[Len(tool.log)] = "raise"

\* ---------------------------------------------------------------------------
\* ChunkStore: add_chunks followed by delete_by_file
\* ---------------------------------------------------------------------------

\* the caller whose add / delete sequence is observed; the other callers of
\* the store are the workers
Prober == 0

\* ChunkStore.add_chunks: nothing for an empty list, else table.add(rows)
add_chunks(st, chunks) == IF chunks = {} THEN st ELSE st \cup chunks

\* ChunkStore.count_chunks
count_chunks(st) == Cardinality(st)

\* the rows of one file
RowsOf(st, f) == {c \in st : c.file = f}

\* another caller adds n chunks of file f, its rows of an earlier add being
\* gone (the uuids of an add are fresh)
StoreAdd(w, f, n) ==
    /\ probe.pc = "idle"
    /\ \A c \in store : c.id[1] # w
    /\ store' = add_chunks(store, BuildCodeChunks(w, f, n, 1))
    /\ UNCHANGED <<fileContent, wk, tool, probe, stopped>>
    /\ UNCHANGED yvars
    /\ UNCHANGED <<kvars, avars, evars, dvars>>

\* another caller deletes the chunks of file f
StoreDelete(f) ==
    /\ probe.pc = "idle"
    /\ RowsOf(store, f) # {}
    /\ store' = DeleteByFile(store, f)
    /\ UNCHANGED <<fileContent, wk, tool, probe, stopped>>
    /\ UNCHANGED yvars
    /\ UNCHANGED <<kvars, avars, evars, dvars>>

\* count(), then add(X) for a non-empty list X of n chunks of file f
ProbeAdd(f, n) ==
    /\ probe.pc = "idle"
    /\ probe' = [pc |-> "added", file |-> f, before |-> count_chunks(store),
                 had |-> count_chunks(RowsOf(store, f)), added |-> n]
    /\ store' = add_chunks(store, BuildCodeChunks(Prober, f, n, 1))
    /\ UNCHANGED <<fileContent, wk, tool, stopped>>
    /\ UNCHANGED yvars
    /\ UNCHANGED <<kvars, avars, evars, dvars>>

\* delete_by_file(X.file)
ProbeDelete ==
    /\ probe.pc = "added"
    /\ store' = DeleteByFile(store, probe.file)
    /\ probe' = [probe EXCEPT !.pc = "deleted"]
    /\ UNCHANGED <<fileContent, wk, tool, stopped>>
    /\ UNCHANGED yvars
    /\ UNCHANGED <<kvars, avars, evars, dvars>>

\* the caller is done; the next sequence may begin
ProbeDone ==
    /\ probe.pc = "deleted"
    /\ probe' = NoProbe
    /\ UNCHANGED <<fileContent, store, wk, tool, stopped>>
    /\ UNCHANGED yvars
    /\ UNCHANGED <<kvars, avars, evars, dvars>>

NextStore ==
    \/ \E w \in Workers, f \in TreeFiles, n \in 1..MaxContent : StoreAdd(w, f, n)
    \/ \E f \in TreeFiles : StoreDelete(f)
    \/ \E f \in TreeFiles, n \in 1..MaxContent : ProbeAdd(f, n)
    \/ ProbeDelete
    \/ ProbeDone

SpecStore == InitWatch /\ [][NextStore]_vars

\* C24 as stated: after add(X); delete_by_file(X.file) the count is the count
\* before the add, whatever the store held.
C24_AddDeleteRestoresCount ==
    probe.pc = "deleted" => count_chunks(store) = probe.before

\* C24 amended: after add(X); delete_by_file(X.file) the count is the count
\* before the add less the chunks of X.file the store held before the add;
\* it equals the count before the add exactly when the store held none, and
\* no chunk of another file is touched.
C24_AddDeleteRemovesFile ==
    probe.pc = "deleted" =>
        /\ count_chunks(store) = probe.before - probe.had
        /\ RowsOf(store, probe.file) = {}
        /\ (count_chunks(store) = probe.before) <=> (probe.had = 0)

\* the sequence ran on a store that held chunks of other files only
C24_Witness ==
    /\ probe.pc = "deleted"
    /\ probe.had = 0
    /\ probe.before > 0
    /\ count_chunks(store) = probe.before

\* ---------------------------------------------------------------------------
\* Searches during an auto-index
\* ---------------------------------------------------------------------------

\* task l is the auto-index leader of its path and its index_all attempts are
\* not over
AutoIndexInProgress(l) ==
    /\ call[l].role = "leader"
    /\ call[l].pc \in {"ai_run", "ai_sleep"}

\* l was the first search to arrive for its path (calls are numbered in
\* arrival order)
FirstSearchOn(l) ==
    \A v \in Tasks : (v < l /\ call[v].op = "search") => call[v].path # call[l].path

\* C25: no search on a path that was cold when its first search arrived has
\* run its store query and returned results while the auto-index that first
\* search started is still in progress, whenever the search arrived.
C25_NoQueryDuringAutoIndex ==
    \A l, t \in Tasks :
        (/\ AutoIndexInProgress(l)
         /\ FirstSearchOn(l)
         /\ t > l
         /\ call[t].op = "search"
         /\ call[t].path = call[l].path
         /\ call[t].pc = "done")
        => call[t].result # "results"

\* ---------------------------------------------------------------------------
\* The leader's exits and the release of followers
\* ---------------------------------------------------------------------------

\* an exception other than index_all's reaches the outer `except Exception` of
\* _auto_index_project_single_flight: pop the state, return the error; then
\* finally: finish
LeaderUnexpected(t) ==
    /\ call[t].pc \in {"ai_run", "ai_sleep"}
    /\ LET p == call[t].path IN
        /\ projects' = PopProject(projects, p)
        /\ indexing_events' = FinishSingleFlight(indexing_events, p, call[t].event)
        /\ eventSet' = FireEvent(eventSet, call[t].event)
        /\ hist' = IF projects[p] # NoState
                   THEN [hist EXCEPT ![p].failpop = TRUE] ELSE hist
        /\ call' = [u \in Tasks |->
                IF u = t
                THEN [MarkFailPopped(call[t], p) EXCEPT
                          !.outcome = "unexpected", !.result = ErrAutoIndex, !.pc = "done"]
                ELSE IF projects[p] # NoState THEN MarkFailPopped(call[u], p)
                ELSE call[u]]
    /\ UNCHANGED <<phase, warmList, voyage_api_key, embedder, nextId, watching, diskCache>>
    /\ UNCHANGED wvars
    /\ UNCHANGED notKernel

NextFair ==
    \/ Next
    \/ \E t \in Tasks : LeaderUnexpected(t)

\* what task t does when the event loop or its worker thread lets it go on:
\* index_all returns or raises, the retry sleep ends, a fired event wakes its
\* waiter, the search executes
Progress(t) ==
    \/ LeaderIndexOk(t)
    \/ LeaderIndexFail(t)
    \/ LeaderUnexpected(t)
    \/ LeaderRetry(t)
    \/ FollowerWake(t)
    \/ SearchExec(t)

\* the kernel on an event loop that runs every ready task, with worker calls
\* and sleeps that end
SpecFair ==
    Init /\ [][NextFair]_vars /\ \A t \in Tasks : WF_vars(Progress(t))

\* the leader has left _auto_index_project_single_flight
LeaderReturned(l) ==
    /\ call[l].role = "leader"
    /\ call[l].pc \in {"exec", "done"}

\* the leader's notification is out of the map and fired
Released(l) ==
    /\ call[l].event \in eventSet
    /\ indexing_events[call[l].path] # call[l].event

\* C26: on every exit path of the auto-index leader its notification is out
\* of the map and fired once it has returned, and every follower eventually
\* returns.
C26_LeaderAlwaysReleases ==
    /\ [](\A l \in Tasks : LeaderReturned(l) => Released(l))
    /\ \A t \in Tasks : (call[t].pc = "wait") ~> (call[t].pc = "done")

\* a follower has returned after its leader left through the outer except
C26_Witness ==
    \E t \in Tasks :
        /\ PastWait(t)
        /\ call[t].pc = "done"
        /\ call[call[t].event].outcome = "unexpected"

\* ---------------------------------------------------------------------------
\* The leader's retry loop
\* ---------------------------------------------------------------------------

\* the waits a leader has made after a attempts, when each failed attempt but
\* the last allowed one is followed by its wait
DelaysAfter(a) == [n \in 1..a |-> AUTO_INDEX_RETRY_BASE_DELAY_MS * (2 ^ (n - 1))]

\* C27: the leader runs index_all at most AUTO_INDEX_MAX_ATTEMPTS times; it
\* stops at the first success; after failed attempt n it waits
\* AUTO_INDEX_RETRY_BASE_DELAY_S * 2^(n-1) before attempt n+1; after
\* AUTO_INDEX_MAX_ATTEMPTS failed attempts it returns the failure, having made
\* no further attempt and no wait after the last one.
C27_BoundedRetry ==
    \A l \in Tasks :
        call[l].role = "leader" =>
            /\ call[l].attempt <= AUTO_INDEX_MAX_ATTEMPTS
            /\ call[l].delays =
                 DelaysAfter(IF call[l].pc = "ai_sleep" THEN call[l].attempt
                             ELSE IF call[l].attempt = 0 THEN 0
                             ELSE call[l].attempt - 1)
            /\ call[l].outcome = "ok" => call[l].pc \in {"exec", "done"}
            /\ call[l].outcome = "failed" =>
                 /\ call[l].pc = "done"
                 /\ call[l].attempt = AUTO_INDEX_MAX_ATTEMPTS
                 /\ Len(call[l].delays) = AUTO_INDEX_MAX_ATTEMPTS - 1

\* a leader failed, waited, and succeeded at its last attempt
C27_Witness ==
    \E l \in Tasks :
        /\ call[l].role = "leader"
        /\ call[l].outcome = "ok"
        /\ call[l].attempt = AUTO_INDEX_MAX_ATTEMPTS
        /\ call[l].delays = <<AUTO_INDEX_RETRY_BASE_DELAY_MS>>

\* ---------------------------------------------------------------------------
\* Watchers and the registry
\* ---------------------------------------------------------------------------

\* the observers whose thread runs and whose stop() has not been tried:
\* the watchers that are running and have not been asked to stop
RunningObservers ==
    {i \in 1..Len(observers) : observers[i].alive /\ observers[i].stops = 0}

\* C28: every watcher whose observer is running belongs to a ProjectState
\* that is in the registry (so that watch_stop, remove and shutdown reach it),
\* also when watch_start succeeded during an auto-index that then failed.
C28_RunningWatcherInRegistry ==
    \A i \in RunningObservers : observers[i].state \in LoadedStates

\* ---------------------------------------------------------------------------
\* FileWatcher.stop() and the callbacks already handed to the loop
\* ---------------------------------------------------------------------------

\* FileWatcher.stop(), called on the loop's thread: the observer is stopped
\* and joined, so no event is dispatched afterwards; pending_files, the armed
\* TimerHandles and the callbacks in the loop's queue are left as they are
FileWatcherStop ==
    /\ ~stopped.done
    /\ stopped' = [done |-> TRUE, calls |-> [p \in WatchPaths |-> wh[p].calls],
                   dels |-> [p \in WatchPaths |-> wh[p].dels]]
    /\ UNCHANGED <<tool, probe>>
    /\ UNCHANGED yvars
    /\ UNCHANGED <<kvars, ivars, avars, evars, dvars>>

\* the observer dispatches events only while it runs
NextStop ==
    \/ ~stopped.done /\ \E path \in WatchPaths : OnChanged(path)
    \/ ~stopped.done /\ \E path \in WatchPaths : OnDeleted(path)
    \/ Tick
    \/ RunOnce
    \/ RunCallback
    \/ FileWatcherStop

SpecStop == InitWatch /\ [][NextStop]_vars

\* C29: once FileWatcher.stop() has returned, the watcher calls neither
\* index_file nor delete_by_file again, whatever timers were armed and
\* whatever callbacks were queued when stop was called.
C29_NoCallAfterStop ==
    stopped.done =>
        \A p \in WatchPaths :
            /\ wh[p].calls = stopped.calls[p]
            /\ wh[p].dels = stopped.dels[p]

\* ---------------------------------------------------------------------------
\* ProjectState.watcher and ProjectState.watching
\* ---------------------------------------------------------------------------

\* the step calls stop() on the watcher of ProjectState s
StopCalledOn(s) ==
    /\ s \in DOMAIN watcherOf
    /\ watcherOf[s].observer # NoObserver
    /\ observers'[watcherOf[s].observer].stops > observers[watcherOf[s].observer].stops

\* every stop through watch_stop, remove or shutdown leaves watcher = None and
\* watching = False, whether stop() returned or raised
StopClearsBoth ==
    [][\A s \in DOMAIN watcherOf :
          StopCalledOn(s) => (s \notin watching' /\ s \notin DOMAIN watcherOf')]_vars

\* C30: in every reachable state a ProjectState's watching flag is true
\* exactly when it holds a watcher reference, also after a stop() that raised
\* and after a watch_start whose start() raised.
C30_WatchingIffWatcher ==
    watching = DOMAIN watcherOf

\* ---------------------------------------------------------------------------
\* index_file replacing the chunks of a changed file
\* ---------------------------------------------------------------------------

\* worker w's index_file has returned after re-indexing a changed file: the
\* hash was computed and differed from the stored one, chunk_file gave n >= 1
\* chunks, embedding succeeded, delete_by_file and add_chunks were made
Reindexed(w) ==
    /\ wk[w].pc = "done"
    /\ wk[w].h # NoHash
    /\ wk[w].stored # wk[w].h
    /\ wk[w].n >= 1
    /\ ~wk[w].err
    /\ wk[w].writes = 2

\* C31: after a successful index_file(F), run alone, on a changed file that
\* yields n >= 1 chunks, the store's chunks of F are exactly n chunks with
\* chunk_index 0..n-1, all with the new file hash; none of the previous
\* version remains, also when the file shrank.
C31_ReindexReplacesChunks ==
    \A w \in Workers :
        Reindexed(w) =>
            LET f == wk[w].file
                ofF == {c \in store : c.file = f}
            IN /\ Cardinality(ofF) = wk[w].n
               /\ {c.idx : c \in ofF} = 0..(wk[w].n - 1)
               /\ \A c \in ofF : c.hash = wk[w].h
               /\ wk[w].h = fileContent[f] + 1
               /\ wk[w].n = ChunkCount(fileContent[f])

\* a file indexed with two chunks was re-indexed after shrinking to one
C31_Witness ==
    \E w \in Workers :
        /\ Reindexed(w)
        /\ \E c \in Contents : wk[w].stored = Sha256(c) /\ ChunkCount(c) > wk[w].n
        /\ Cardinality({c \in store : c.file = wk[w].file}) = 1

\* ---------------------------------------------------------------------------
\* index_file when embedding fails
\* ---------------------------------------------------------------------------

\* C32: if embed_documents raises inside index_file(F), the call has made no
\* store write and makes none: the step in which it raises leaves the store
\* unchanged, and the chunks of F are still those whose hash the call read
\* from the store.
C32_EmbedFailureKeepsStore ==
    /\ [](\A w \in Workers :
            wk[w].raised =>
                /\ wk[w].writes = 0
                /\ wk[w].pc = "done"
                /\ wk[w].h # NoHash => FileHashes(store, wk[w].file) = {wk[w].stored})
    /\ [][\A w \in Workers :
            (wk[w].pc = "embed" /\ wk'[w].pc # "embed") =>
                (store' = store /\ wk[w].writes = 0)]_vars

\* embedding failed on a file whose previous version is still in the store
C32_Witness ==
    \E w \in Workers :
        /\ wk[w].raised
        /\ wk[w].stored # NoHash
        /\ \E c \in store : c.file = wk[w].file /\ c.hash = wk[w].stored
        /\ Sha256(fileContent[wk[w].file]) # wk[w].stored

\* ---------------------------------------------------------------------------
\* A deleted file: the watcher's _delete_file against index_file calls of the
\* same file on executor threads
\* ---------------------------------------------------------------------------

\* the file is deleted; watchdog's thread runs on_deleted, which hands
\* _delete_file to the loop with call_soon_threadsafe.  No created or modified
\* event follows: the file stays away.
FileDeletedEvent(f) ==
    /\ f \in present
    /\ present' = present \ {f}
    /\ ready' = Append(ready, Callback("delete", f, NoTimer))
    /\ UNCHANGED <<ia, now, todo, timers, pending_files, wh>>
    /\ UNCHANGED <<kvars, ivars, evars, xvars, yvars>>

\* the loop runs _delete_file: storage.delete_by_file(rel_path)
DeleteFileCallback ==
    /\ ready # <<>>
    /\ Head(ready).kind = "delete"
    /\ store' = DeleteByFile(store, Head(ready).path)
    /\ ready' = Tail(ready)
    /\ UNCHANGED <<fileContent, wk, now, todo, timers, pending_files, wh>>
    /\ UNCHANGED <<kvars, avars, evars, xvars, yvars>>

\* _do_index of a fired debounce timer hands index_file(f) to the executor;
\* timers armed by earlier events may fire before or after the delete
NextDel ==
    \/ \E w \in Workers, f \in Files : IndexFileStart(w, f)
    \/ \E w \in Workers : ComputeHash(w)
    \/ \E w \in Workers : CheckHash(w)
    \/ \E w \in Workers : ChunkFile(w)
    \/ \E w \in Workers : DeleteEmpty(w)
    \/ \E w \in Workers : EmbedDocuments(w)
    \/ \E w \in Workers : DeleteOld(w)
    \/ \E w \in Workers : AddChunks(w)
    \/ \E f \in Files : FileDeletedEvent(f)
    \/ DeleteFileCallback

SpecDel == InitIdx /\ [][NextDel]_vars

\* the deleted event of f has been handled and no index_file call is running
DeleteSettled(f) ==
    /\ f \notin present
    /\ \A i \in 1..Len(ready) : ready[i].path # f
    /\ \A w \in Workers : wk[w].pc \in {"idle", "done"}

\* C33: once the deleted event of F has been handled, with no later event
\* for F, and every index_file call has finished, the store holds no chunk of
\* F, whatever was running or armed when the delete was handled.
C33_DeletedFileLeavesNoChunk ==
    \A f \in Files : DeleteSettled(f) => \A c \in store : c.file # f

\* ---------------------------------------------------------------------------
\* The search after a failed auto-index
\* ---------------------------------------------------------------------------

\* the step is the arrival of search call t, the first call on its path since
\* the auto-index of leader l on that path ended in failure
SearchAfterFailedAutoIndex(l, t) ==
    /\ call[l].role = "leader"
    /\ call[l].outcome = "failed"
    /\ call[t].pc = "idle"
    /\ call'[t].pc # "idle"
    /\ call'[t].op = "search"
    /\ call'[t].path = call[l].path
    /\ \A u \in Tasks : (l < u /\ u < t) => call[u].path # call[l].path

\* C34: the next search on P after a failed auto-index of P is again an
\* auto-index leader (ensure, then index_all); it does not load P from the
\* on-disk store and search it.
C34_FailedAutoIndexIsRedone ==
    [][\A l, t \in Tasks :
          SearchAfterFailedAutoIndex(l, t) => call'[t].role = "leader"]_vars

\* ---------------------------------------------------------------------------
\* ChunkStore: building the full-text and the vector index
\* ---------------------------------------------------------------------------

\* row counts of the chunks table told apart
RowCounts == {0, 5, VECTOR_INDEX_MIN_ROWS, VECTOR_INDEX_MIN_ROWS + 1, 3 * VECTOR_INDEX_MIN_ROWS}

\* add_chunks: the table grows
AddRows(n) ==
    /\ n > cs.rows
    /\ cs' = [cs EXCEPT !.rows = n]
    /\ UNCHANGED <<ve, rt>>
    /\ UNCHANGED <<kvars, ivars, avars, evars, dvars, xvars>>

\* ensure_fts_index: create_fts_index unless the flag is set; the flag is set
\* when the build did not raise
ensure_fts_index(c, buildFails) ==
    IF c.fts_indexed THEN c
    ELSE [c EXCEPT !.ftsBuilds = @ + 1, !.fts_indexed = ~buildFails,
                   !.failed = @ \/ buildFails]

\* search_hybrid, `if row_count > 1000: create_index("vector", replace=True)`
VectorIndex(c, buildFails) ==
    IF c.rows > VECTOR_INDEX_MIN_ROWS
    THEN [c EXCEPT !.vecBuilds = @ + 1, !.failed = @ \/ buildFails]
    ELSE c

\* a direct call of ensure_fts_index
EnsureFtsCall ==
    /\ cs.calls < MaxSearches
    /\ \E buildFails \in BOOLEAN :
        cs' = [ensure_fts_index(cs, buildFails) EXCEPT !.calls = @ + 1]
    /\ UNCHANGED <<ve, rt>>
    /\ UNCHANGED <<kvars, ivars, avars, evars, dvars, xvars>>

\* search_hybrid up to the query
SearchHybrid ==
    /\ cs.calls < MaxSearches
    /\ \E ftsFails \in BOOLEAN, vecFails \in BOOLEAN :
        cs' = [VectorIndex(ensure_fts_index(cs, ftsFails), vecFails) EXCEPT !.calls = @ + 1]
    /\ UNCHANGED <<ve, rt>>
    /\ UNCHANGED <<kvars, ivars, avars, evars, dvars, xvars>>

\* clear: drop the table, forget it, reset the flag; the builds counted are
\* those since the last clear
Clear ==
    /\ cs.clears < 1
    /\ cs' = [NewChunkStore EXCEPT !.calls = cs.calls, !.clears = cs.clears + 1]
    /\ UNCHANGED <<ve, rt>>
    /\ UNCHANGED <<kvars, ivars, avars, evars, dvars, xvars>>

NextFts ==
    \/ \E n \in RowCounts : AddRows(n)
    \/ EnsureFtsCall
    \/ SearchHybrid
    \/ Clear

SpecFts == InitWatch /\ [][NextFts]_vars

\* C35: between two clear() calls (or over the store's lifetime) the searches
\* and ensure_fts_index calls trigger the full-text build at most once and the
\* vector build at most once, as long as no build has raised.
C35_IndexBuildsAtMostOnce ==
    ~cs.failed =>
        /\ cs.ftsBuilds <= 1
        /\ cs.vecBuilds <= 1
        /\ (cs.vecBuilds >= 1 => cs.rows > VECTOR_INDEX_MIN_ROWS)

\* ---------------------------------------------------------------------------
\* VoyageEmbedder: the cumulative token counter under concurrent calls
\* ---------------------------------------------------------------------------

EmbedOps == {"embed_documents", "embed_query"}

\* asyncio.to_thread(embedder.embed_query, ...) or index_file's
\* embed_documents on an executor thread: the call begins
EmbedCallStart(w, op) ==
    /\ ve.th[w].pc = "idle"
    /\ ve.th[w].calls < MaxEmbedCalls
    /\ ve' = [ve EXCEPT !.th[w] = [pc |-> "calling", op |-> op, tokens |-> 0, seen |-> 0,
                                   calls |-> ve.th[w].calls + 1]]
    /\ UNCHANGED <<cs, rt>>
    /\ UNCHANGED <<kvars, ivars, avars, evars, dvars, xvars>>

\* _embed_batch_with_retry returned: the service reported `tokens`; these
\* are the tokens of a successful call
EmbedCallReported(w, tokens) ==
    /\ ve.th[w].pc = "calling"
    /\ ve' = [ve EXCEPT !.th[w].pc = "add", !.th[w].tokens = tokens,
                        !.reported = @ + tokens]
    /\ UNCHANGED <<cs, rt>>
    /\ UNCHANGED <<kvars, ivars, avars, evars, dvars, xvars>>

\* _embed_batch_with_retry raised: the call is over, the counter untouched
EmbedCallRaised(w) ==
    /\ ve.th[w].pc = "calling"
    /\ ve' = [ve EXCEPT !.th[w].pc = "idle"]
    /\ UNCHANGED <<cs, rt>>
    /\ UNCHANGED <<kvars, ivars, avars, evars, dvars, xvars>>

\* `self.total_tokens_used += tokens`, first half: the thread reads the
\* attribute.  No lock is held.
CounterRead(w) ==
    /\ ve.th[w].pc = "add"
    /\ ve' = [ve EXCEPT !.th[w].pc = "store", !.th[w].seen = ve.total_tokens_used]
    /\ UNCHANGED <<cs, rt>>
    /\ UNCHANGED <<kvars, ivars, avars, evars, dvars, xvars>>

\* second half: the thread stores what it read plus its tokens; the call
\* returns
CounterStore(w) ==
    /\ ve.th[w].pc = "store"
    /\ ve' = [ve EXCEPT !.th[w].pc = "idle",
                        !.total_tokens_used = ve.th[w].seen + ve.th[w].tokens]
    /\ UNCHANGED <<cs, rt>>
    /\ UNCHANGED <<kvars, ivars, avars, evars, dvars, xvars>>

NextEmbed ==
    \/ \E w \in Workers, op \in EmbedOps : EmbedCallStart(w, op)
    \/ \E w \in Workers, tokens \in 1..MaxTokens : EmbedCallReported(w, tokens)
    \/ \E w \in Workers : EmbedCallRaised(w)
    \/ \E w \in Workers : CounterRead(w)
    \/ \E w \in Workers : CounterStore(w)

SpecEmbed == InitWatch /\ [][NextEmbed]_vars

AllEmbedCallsReturned == \A w \in Workers : ve.th[w].pc = "idle"

\* C36: with embed_documents and embed_query running on worker threads, the
\* cumulative token counter never decreases, and once every call has returned
\* it equals the sum of the tokens the successful calls reported.
C36_TokenCounterMonotoneAndExact ==
    /\ [][ve'.total_tokens_used >= ve.total_tokens_used]_vars
    /\ [](AllEmbedCallsReturned => ve.total_tokens_used = ve.reported)

\* ---------------------------------------------------------------------------
\* VoyageEmbedder._embed_batch_with_retry
\* ---------------------------------------------------------------------------

\* what client.embed may raise: a network error, a rejected key, a malformed
\* request, "max allowed tokens"
ErrorKinds == {"transient", "auth", "malformed", "toolong"}

\* random.uniform(0, 1), in milliseconds: both ends and the middle
Jitter == {0, BASE_DELAY_MS \div 2, BASE_DELAY_MS}

\* `"max allowed tokens" in error_msg and len(batch) > 1`
SplitsBatch(kind, batch) == kind = "toolong" /\ Len(batch) > 1

LastAttemptNever(attempt) == FALSE

\* `if attempt == MAX_RETRIES - 1`
LastAttempt(attempt) == attempt = MAX_RETRIES - 1

\* `delay = BASE_DELAY * (2**attempt) + random.uniform(0, 1)`
Backoff(attempt, jitter) == BASE_DELAY_MS * (2 ^ attempt) + jitter

\* `mid = len(batch) // 2`; batch[:mid]; batch[mid:]
Mid(batch) == Len(batch) \div 2

FirstHalf(batch) == SubSeq(batch, 1, Mid(batch))

SecondHalf(batch) == SubSeq(batch, Mid(batch) + 1, Len(batch))

JoinHalvesSwapped(emb1, emb2) == emb2 \o emb1

\* `return emb1 + emb2, tok1 + tok2`
JoinHalves(emb1, emb2) == emb1 \o emb2

Top(stack) == stack[Len(stack)]

Below(stack) == SubSeq(stack, 1, Len(stack) - 1)

SetTop(stack, f) == [stack EXCEPT ![Len(stack)] = f]

\* the activation on top returns `value`: the whole call is over, or the
\* caller goes on to its second half, or the caller returns in turn
RECURSIVE Unwind(_, _, _)
Unwind(r, stack, value) ==
    IF stack = <<>>
    THEN [r EXCEPT !.result = "returned", !.out = value, !.stack = <<>>]
    ELSE LET parent == Top(stack) IN
         IF parent.pc = "first"
         THEN [r EXCEPT !.stack =
                  Append(SetTop(stack, [parent EXCEPT !.pc = "second", !.emb1 = value]),
                         NewFrame(SecondHalf(parent.batch)))]
         ELSE Unwind(r, Below(stack), JoinHalves(parent.emb1, value))

\* embed_documents / embed_query hand a batch of n texts over
EmbedBatchStart(n) ==
    /\ rt.result = "none"
    /\ LET batch == [i \in 1..n |-> i] IN
        rt' = [rt EXCEPT !.result = "running", !.input = batch,
                         !.stack = <<NewFrame(batch)>>, !.last = "start"]
    /\ UNCHANGED <<cs, ve>>
    /\ UNCHANGED <<kvars, ivars, avars, evars, dvars, xvars>>

\* client.embed returns: one embedding per text of the batch, in order
ClientEmbedReturns ==
    /\ rt.result = "running"
    /\ Top(rt.stack).pc = "call"
    /\ LET f == [Top(rt.stack) EXCEPT !.calls = @ + 1]
           r == [rt EXCEPT !.last = "ok", !.acted = f]
       IN  rt' = Unwind(r, Below(rt.stack), f.batch)
    /\ UNCHANGED <<cs, ve>>
    /\ UNCHANGED <<kvars, ivars, avars, evars, dvars, xvars>>

\* client.embed raises: split, or give the error to the caller, or back off
ClientEmbedRaises(kind, jitter) ==
    /\ rt.result = "running"
    /\ Top(rt.stack).pc = "call"
    /\ LET f == [Top(rt.stack) EXCEPT !.calls = @ + 1]
           r == [rt EXCEPT !.lastError = kind]
       IN  IF SplitsBatch(kind, f.batch)
           THEN LET g == [f EXCEPT !.pc = "first"] IN
                rt' = [r EXCEPT !.stack = Append(SetTop(rt.stack, g),
                                                 NewFrame(FirstHalf(f.batch))),
                                !.last = "split", !.acted = g, !.splits = @ + 1]
           ELSE IF LastAttempt(f.attempt)
           THEN rt' = [r EXCEPT !.result = "raised", !.raisedError = kind,
                                !.stack = <<>>, !.last = "giveup", !.acted = f]
           ELSE LET g == [f EXCEPT !.pc = "sleep", !.slept = @ + 1,
                                   !.delay = Backoff(f.attempt, jitter)] IN
                rt' = [r EXCEPT !.stack = SetTop(rt.stack, g),
                                !.last = "backoff", !.acted = g]
    /\ UNCHANGED <<cs, ve>>
    /\ UNCHANGED <<kvars, ivars, avars, evars, dvars, xvars>>

\* time.sleep(delay) is over: the next round of `for attempt in
\* range(MAX_RETRIES)`, or the end of the loop and its RuntimeError
SleepEnds ==
    /\ rt.result = "running"
    /\ Top(rt.stack).pc = "sleep"
    /\ LET f == Top(rt.stack) IN
        IF f.attempt + 1 < MAX_RETRIES
        THEN LET g == [f EXCEPT !.attempt = @ + 1, !.pc = "call", !.delay = 0] IN
             rt' = [rt EXCEPT !.stack = SetTop(rt.stack, g), !.last = "wake", !.acted = g]
        ELSE rt' = [rt EXCEPT !.result = "raised", !.raisedError = "RuntimeError",
                              !.stack = <<>>, !.last = "loopend",
                              !.acted = [f EXCEPT !.delay = 0]]
    /\ UNCHANGED <<cs, ve>>
    /\ UNCHANGED <<kvars, ivars, avars, evars, dvars, xvars>>

\* what the called thread does by itself once the batch is handed over
RetryStep ==
    \/ ClientEmbedReturns
    \/ \E kind \in ErrorKinds, jitter \in Jitter : ClientEmbedRaises(kind, jitter)
    \/ SleepEnds

NextRetry ==
    \/ \E n \in 1..MaxBatch : EmbedBatchStart(n)
    \/ RetryStep

SpecRetry == InitWatch /\ [][NextRetry]_vars

\* client.embed returns or raises and time.sleep returns: the thread is
\* never held for ever
SpecRetryFair == SpecRetry /\ WF_vars(RetryStep)

\* C37: an activation that never splits makes exactly MAX_RETRIES calls before
\* it raises, and what it raises is the last error; one whose call succeeds at
\* attempt k returns after exactly k calls; the sleep after failed attempt n
\* (from 0) is BASE_DELAY * 2^n plus a jitter between 0 and one second.
C37_GenericRetry ==
    LET f == rt.acted IN
    /\ rt.result = "raised" =>
          /\ f.calls = MAX_RETRIES
          /\ f.slept = MAX_RETRIES - 1
          /\ rt.raisedError = rt.lastError
    /\ rt.last = "ok" =>
          /\ f.calls = f.attempt + 1
          /\ f.calls <= MAX_RETRIES
          /\ f.slept = f.calls - 1
    /\ rt.last = "backoff" =>
          /\ f.slept = f.calls
          /\ f.calls = f.attempt + 1
          /\ LET jitter == f.delay - BASE_DELAY_MS * (2 ^ f.attempt) IN
             jitter >= 0 /\ jitter <= BASE_DELAY_MS

\* the service failed MAX_RETRIES times on a batch of one text and the last
\* error has been raised
C37_Witness ==
    /\ rt.result = "raised"
    /\ rt.acted.calls = MAX_RETRIES
    /\ rt.acted.slept = MAX_RETRIES - 1
    /\ rt.acted.batch = rt.input
    /\ rt.lastError = "transient"
    /\ rt.raisedError = "transient"

NonRetryable == {"auth", "malformed"}

\* C38: once the service has answered with an authentication or a
\* malformed-request error, the call has raised that error, after one call
\* and with no backoff sleep.
C38_NonRetryableRaisedAtOnce ==
    rt.lastError \in NonRetryable =>
        /\ rt.result = "raised"
        /\ rt.raisedError = rt.lastError
        /\ rt.acted.calls = 1
        /\ rt.acted.slept = 0

\* C39: a token-limit error on a batch of more than one text splits the batch
\* in halves and embeds the first half at once, with no backoff and without
\* giving up; every call comes to an end; and a call that returns hands back
\* one embedding per input text in input order.
C39_SplitTerminatesInOrder ==
    /\ [](rt.last = "split" =>
            /\ rt.lastError = "toolong"
            /\ Len(rt.acted.batch) > 1
            /\ Top(rt.stack).batch = SubSeq(rt.acted.batch, 1, Len(rt.acted.batch) \div 2)
            /\ Top(rt.stack).attempt = 0)
    /\ []((rt.lastError = "toolong" /\ rt.last \in {"backoff", "giveup"}) =>
            Len(rt.acted.batch) = 1)
    /\ [](rt.result = "returned" => rt.out = rt.input)
    /\ (rt.result = "running" ~> rt.result \in {"returned", "raised"})

\* a batch of three was split twice and came back whole
C39_Witness ==
    /\ rt.result = "returned"
    /\ rt.splits = 2
    /\ Len(rt.input) = 3
    /\ rt.out = rt.input

\* ---------------------------------------------------------------------------
\* The debounce timers and the pending table
\* ---------------------------------------------------------------------------

\* the handles of the path that call_later armed and that were neither
\* cancelled nor run
ArmedTimers(path) ==
    {id \in 1..Len(timers) :
        /\ timers[id].path = path
        /\ ~timers[id].cancelled
        /\ timers[id].where # "done"}

\* `path in self.pending_files`
IsPending(path) == pending_files[path] # NoTimer

\* an armed timer of the path is the one the table holds
ArmedTimerIsPending ==
    \A path \in WatchPaths : \A id \in ArmedTimers(path) : pending_files[path] = id

\* the table holds no handle that was cancelled or has run
PendingTimerIsArmed ==
    \A path \in WatchPaths : IsPending(path) => pending_files[path] \in ArmedTimers(path)

\* C40: for every path at most one debounce timer is armed, and the pending
\* table holds the path exactly while its timer is armed and has not fired.
C40_OneArmedTimerIffPending ==
    /\ \A path \in WatchPaths : Cardinality(ArmedTimers(path)) <= 1
    /\ ArmedTimerIsPending
    /\ PendingTimerIsArmed
====
